---- MODULE Spec2Model ----
(***************************************************************************)
(* Model of the cluster-services MCP server: the input validators, the     *)
(* URL guard, the fixed-window rate limiter, the test_endpoint handler and  *)
(* the service discovery engine.                                           *)
(*                                                                         *)
(* Strings are sequences of lexical tokens: a run of lower-case            *)
(* alphanumerics is one token ("homepage", "8080"), and every punctuation  *)
(* character is a token of its own ("/", ".", ":", "-", " ").  String      *)
(* concatenation is \o, and the regular expressions, trim() and the URL    *)
(* parser are computed on the tokens.                                      *)
(*                                                                         *)
(* JavaScript values are tagged records: [t |-> "undefined"],              *)
(* [t |-> "string", str |-> tokens], [t |-> "number", num |-> n], ...      *)
(* A function that may throw returns [ok |-> TRUE, v |-> value] or         *)
(* [ok |-> FALSE, err |-> error].                                          *)
(***************************************************************************)
EXTENDS Integers, Sequences, FiniteSets, TLC

\* ------------------------------------------------------------------ bounds

\* RateLimiter constructor parameters (windowMs, maxRequests), scaled down.
WindowMs == 2
MaxRequests == 2
\* The clock runs from 0 to MaxTime.
MaxTime == 4
\* Number of handler invocations that may be in flight at once.
NumHandlers == 2
\* Total number of rateLimiter.check calls in one behaviour of SpecRL.
MaxChecks == 5
\* Total number of tool invocations, or of HTTP requests, in one behaviour.
MaxCalls == 3
\* Number of SSE transports created in one behaviour.
MaxSessions == 2

\* ----------------------------------------------------------------- tokens

LowerAlnumToks ==
  { "a", "b", "x", "q", "homepage", "default", "prod", "kube", "system",
    "monitoring", "svc", "cluster", "local", "evil", "com", "api", "health",
    "swagger", "json", "yaml", "docs", "openapi", "v3", "http", "https",
    "test", "get", "head", "options", "post", "put", "delete", "html",
    "about", "fetch", "data", "metrics", "add", "project", "creator",
    "technology", "80", "443", "8080", "3000", "3001", "9090", "9999", "1" }

UpperAlnumToks == { "A", "GET", "HEAD", "OPTIONS", "POST", "PUT", "DELETE", "Get" }

Space == " "

\* String.prototype.trim on a token string.
RECURSIVE TrimLeft(_)
TrimLeft(s) ==
  IF s # <<>> /\ Head(s) = Space THEN TrimLeft(Tail(s)) ELSE s

RECURSIVE TrimRight(_)
TrimRight(s) ==
  IF s # <<>> /\ s[Len(s)] = Space THEN TrimRight(SubSeq(s, 1, Len(s) - 1)) ELSE s

Trim(s) == TrimRight(TrimLeft(s))

\* String.prototype.toUpperCase, token by token.
UpperTok(tok) ==
  CASE tok = "get" -> "GET"
    [] tok = "Get" -> "GET"
    [] tok = "head" -> "HEAD"
    [] tok = "options" -> "OPTIONS"
    [] tok = "post" -> "POST"
    [] tok = "put" -> "PUT"
    [] tok = "delete" -> "DELETE"
    [] tok = "patch" -> "PATCH"
    [] tok = "a" -> "A"
    [] OTHER -> tok

ToUpperCase(s) == [i \in 1..Len(s) |-> UpperTok(s[i])]

\* ------------------------------------------------------------- JS values

Undefined == [t |-> "undefined"]
Null == [t |-> "null"]
Str(s) == [t |-> "string", str |-> s]
Num(n) == [t |-> "number", num |-> n]
Bool(b) == [t |-> "boolean", bool |-> b]
\* A plain object: a sequence of <<key, value>> pairs.
Obj(pairs) == [t |-> "object", entries |-> pairs]
Arr(items) == [t |-> "array", items |-> items]

\* ToBoolean: the falsy values are undefined, null, "", 0 and false.
Truthy(val) ==
  CASE val.t = "undefined" -> FALSE
    [] val.t = "null" -> FALSE
    [] val.t = "string" -> val.str # <<>>
    [] val.t = "number" -> val.num # 0
    [] val.t = "boolean" -> val.bool
    [] OTHER -> TRUE

\* a || b
OrElse(a, b) == IF Truthy(a) THEN a ELSE b

Ok(v) == [ok |-> TRUE, v |-> v]
Throw(e) == [ok |-> FALSE, err |-> e]

ValidationError(msg) == [name |-> "ValidationError", message |-> msg]
HttpError(msg) == [name |-> "HttpError", message |-> msg]
RateLimitError(msg) == [name |-> "RateLimitError", message |-> msg]
TypeError(msg) == [name |-> "TypeError", message |-> msg]
Error(msg) == [name |-> "Error", message |-> msg]

\* ------------------------------------------------------------- validators

\* /^[a-z0-9]([-a-z0-9]*[a-z0-9])?$/
K8sNameRe(s) ==
  /\ Len(s) >= 1
  /\ s[1] \in LowerAlnumToks
  /\ s[Len(s)] \in LowerAlnumToks
  /\ \A i \in 1..Len(s) : s[i] \in LowerAlnumToks \cup {"-"}

validateServiceName(name) ==
  IF name.t # "string" \/ Len(Trim(name.str)) = 0
  THEN Throw(ValidationError("Service name must be a non-empty string"))
  ELSE IF ~K8sNameRe(name.str)
  THEN Throw(ValidationError("Service name must be a valid Kubernetes name"))
  ELSE Ok(Trim(name.str))

validateNamespace(namespace) ==
  IF namespace.t \in {"undefined", "null"}
  THEN Ok(<<"default">>)
  ELSE IF namespace.t # "string"
  THEN Throw(ValidationError("Namespace must be a string"))
  ELSE IF Len(Trim(namespace.str)) = 0
  THEN Ok(<<"default">>)
  ELSE IF ~K8sNameRe(Trim(namespace.str))
  THEN Throw(ValidationError("Namespace must be a valid Kubernetes name"))
  ELSE Ok(Trim(namespace.str))

SafeMethods == { <<"GET">>, <<"HEAD">>, <<"OPTIONS">> }

\* A variant that lets every string through.
validateHttpMethodAnyString(method) ==
  IF method.t # "string"
  THEN Throw(ValidationError("HTTP method must be a string"))
  ELSE Ok(ToUpperCase(method.str))

validateHttpMethod(method) ==
  IF method.t # "string"
  THEN Throw(ValidationError("HTTP method must be a string"))
  ELSE IF ToUpperCase(method.str) \notin SafeMethods
  THEN Throw(ValidationError("Only safe HTTP methods are allowed: GET, HEAD, OPTIONS"))
  ELSE Ok(ToUpperCase(method.str))

\* /^\/[a-zA-Z0-9\/\-_\.]*$/
EndpointRe(s) ==
  /\ Len(s) >= 1
  /\ s[1] = "/"
  /\ \A i \in 1..Len(s) :
       s[i] \in LowerAlnumToks \cup UpperAlnumToks \cup {"/", "-", "_", "."}

validateEndpoint(endpoint) ==
  IF endpoint.t # "string" \/ Len(Trim(endpoint.str)) = 0
  THEN Throw(ValidationError("Endpoint must be a non-empty string"))
  ELSE IF Head(Trim(endpoint.str)) # "/"
  THEN Throw(ValidationError("Endpoint must start with '/'"))
  ELSE IF ~EndpointRe(Trim(endpoint.str))
  THEN Throw(ValidationError("Endpoint contains invalid characters"))
  ELSE Ok(Trim(endpoint.str))

validateTimeout(timeout) ==
  IF timeout.t \in {"undefined", "null"}
  THEN Ok(5000)
  ELSE IF timeout.t # "number"
  THEN Throw(ValidationError("Timeout must be a number"))
  ELSE IF timeout.num < 100 \/ timeout.num > 30000
  THEN Throw(ValidationError("Timeout must be between 100 and 30000 milliseconds"))
  ELSE Ok(timeout.num)

\* String(value) for the values a mapping may hold.
RECURSIVE ToStringJs(_)
ToStringJs(val) ==
  CASE val.t = "string" -> val.str
    [] val.t = "number" -> IF val.num = 1 THEN <<"1">> ELSE <<"80">>
    [] val.t = "boolean" -> IF val.bool THEN <<"true">> ELSE <<"false">>
    [] val.t = "null" -> <<"null">>
    [] val.t = "object" -> <<"[object Object]">>
    [] val.t = "array" ->
         IF val.items = <<>> THEN <<>>
         ELSE IF Len(val.items) = 1 THEN ToStringJs(val.items[1])
         ELSE ToStringJs(val.items[1]) \o <<",">> \o ToStringJs(Arr(Tail(val.items)))
    [] OTHER -> <<"undefined">>

StringifyValues(pairs) ==
  [i \in 1..Len(pairs) |-> <<pairs[i][1], ToStringJs(pairs[i][2])>>]

validateQueryParams(params) ==
  IF params.t \in {"undefined", "null"}
  THEN Ok(<<>>)
  ELSE IF params.t # "object"
  THEN Throw(ValidationError("Query parameters must be an object"))
  ELSE Ok(StringifyValues(params.entries))

validateHeaders(headers) ==
  IF headers.t \in {"undefined", "null"}
  THEN Ok(<<>>)
  ELSE IF headers.t # "object"
  THEN Throw(ValidationError("Headers must be an object"))
  ELSE Ok(StringifyValues(headers.entries))

\* ------------------------------------------------------------ URL parsing

DigitToks == { "80", "443", "8080", "3000", "3001", "9090", "9999", "1" }

\* parseInt(port, 10) on the port strings the model uses.
ParseInt(tok) ==
  CASE tok = "80" -> 80
    [] tok = "443" -> 443
    [] tok = "8080" -> 8080
    [] tok = "3000" -> 3000
    [] tok = "3001" -> 3001
    [] tok = "9090" -> 9090
    [] tok = "9999" -> 9999
    [] OTHER -> 1

\* `${port}` for the port numbers the model uses.
PortStr(n) ==
  CASE n = 80 -> "80"
    [] n = 443 -> "443"
    [] n = 8080 -> "8080"
    [] n = 3000 -> "3000"
    [] n = 3001 -> "3001"
    [] n = 9090 -> "9090"
    [] n = 9999 -> "9999"
    [] OTHER -> "1"

LowerTok(tok) ==
  CASE tok = "A" -> "a"
    [] tok = "GET" -> "get"
    [] tok = "Get" -> "get"
    [] tok = "HEAD" -> "head"
    [] tok = "OPTIONS" -> "options"
    [] tok = "POST" -> "post"
    [] tok = "PUT" -> "put"
    [] tok = "DELETE" -> "delete"
    [] tok = "PATCH" -> "patch"
    [] OTHER -> tok

ToLowerCase(s) == [i \in 1..Len(s) |-> LowerTok(s[i])]

\* Index of the first occurrence of tok in s, or 0.
IndexOf(s, tok) ==
  IF \E i \in 1..Len(s) : s[i] = tok
  THEN CHOOSE i \in 1..Len(s) : s[i] = tok /\ \A j \in 1..(i - 1) : s[j] # tok
  ELSE 0

RECURSIVE SkipSlashes(_)
SkipSlashes(s) ==
  IF s # <<>> /\ Head(s) = "/" THEN SkipSlashes(Tail(s)) ELSE s

HttpScheme == <<"http", ":">>
HttpsScheme == <<"https", ":">>

\* A string starts with a URL scheme: an alphabetic token followed by ":".
HasScheme(s) ==
  /\ Len(s) >= 2
  /\ s[1] \in (LowerAlnumToks \cup UpperAlnumToks) \ DigitToks
  /\ s[2] = ":"

\* The authority and path of a special-scheme URL, from the text after the
\* scheme's slashes: host[:port] up to the first "/", then the path.
ParseAuthority(protocol, rest, search) ==
  LET slash == IndexOf(rest, "/")
      authority == IF slash = 0 THEN rest ELSE SubSeq(rest, 1, slash - 1)
      path == IF slash = 0 THEN <<"/">> ELSE SubSeq(rest, slash, Len(rest))
      colon == IndexOf(authority, ":")
      host == IF colon = 0 THEN authority ELSE SubSeq(authority, 1, colon - 1)
      port == IF colon = 0 THEN <<>> ELSE SubSeq(authority, colon + 1, Len(authority))
      hostOk == /\ host # <<>>
                /\ \A i \in 1..Len(host) :
                     host[i] \in LowerAlnumToks \cup UpperAlnumToks \cup {"-", "."}
      portOk == port = <<>> \/ (Len(port) = 1 /\ port[1] \in DigitToks)
      isDefault == \/ (protocol = HttpScheme /\ port = <<"80">>)
                   \/ (protocol = HttpsScheme /\ port = <<"443">>)
  IN IF hostOk /\ portOk
     THEN Ok([protocol |-> protocol,
              hostname |-> ToLowerCase(host),
              port |-> IF isDefault THEN <<>> ELSE port,
              pathname |-> path,
              search |-> search])
     ELSE Throw(TypeError("Invalid URL"))

\* new URL(s) for an absolute URL string.
ParseAbsolute(s) ==
  IF ~HasScheme(s)
  THEN Throw(TypeError("Invalid URL"))
  ELSE LET protocol == ToLowerCase(SubSeq(s, 1, 2))
           rest == SubSeq(s, 3, Len(s))
       IN IF protocol \in {HttpScheme, HttpsScheme}
          THEN ParseAuthority(protocol, SkipSlashes(rest), <<>>)
          ELSE Ok([protocol |-> protocol, hostname |-> <<>>, port |-> <<>>,
                   pathname |-> rest, search |-> <<>>])

NoBase == <<>>

\* A relative reference resolved against a parsed base: "//host/path" keeps
\* only the base's scheme; "/path" keeps the base's scheme, host and port.
ResolveRelative(url, b) ==
  IF ~b.ok
  THEN b
  ELSE IF Len(url) >= 2 /\ url[1] = "/" /\ url[2] = "/"
  THEN ParseAuthority(b.v.protocol, SkipSlashes(url), <<>>)
  ELSE IF Len(url) >= 1 /\ url[1] = "/"
  THEN Ok([b.v EXCEPT !.pathname = url])
  ELSE Ok([b.v EXCEPT !.pathname = <<"/">> \o url])

\* new URL(url, base): an absolute url ignores the base.
ParseUrl(url, base) ==
  IF HasScheme(url)
  THEN ParseAbsolute(url)
  ELSE IF base = NoBase
  THEN Throw(TypeError("Invalid URL"))
  ELSE ResolveRelative(url, ParseAbsolute(base))

\* url.searchParams.append(key, value) for every entry of the mapping.
AppendSearchParams(u, params) == [u EXCEPT !.search = @ \o params]

RECURSIVE SerializeSearch(_)
SerializeSearch(params) ==
  IF params = <<>>
  THEN <<>>
  ELSE params[1][1] \o <<"=">> \o params[1][2]
       \o (IF Len(params) > 1 THEN <<"&">> ELSE <<>>)
       \o SerializeSearch(Tail(params))

\* url.href / url.toString()
Href(u) ==
  u.protocol \o <<"/", "/">> \o u.hostname
    \o (IF u.port = <<>> THEN <<>> ELSE <<":">> \o u.port)
    \o u.pathname
    \o (IF u.search = <<>> THEN <<>> ELSE <<"?">> \o SerializeSearch(u.search))

\* The target an HTTP client contacts for a URL string: scheme, host, port.
\* The query string does not take part.
RequestTarget(href) ==
  LET q == IndexOf(href, "?")
  IN ParseAbsolute(IF q = 0 THEN href ELSE SubSeq(href, 1, q - 1))

\* -------------------------------------------------------------- URL guard

ClusterSuffix == <<".", "svc", ".", "cluster", ".", "local">>

AllowedNamespaces == { <<"default">>, <<"kube", "-", "system">>, <<"monitoring">> }

\* One of ALLOWED_HOST_PATTERNS matches: <dns-label>.<ns>.svc.cluster.local
MatchesAllowedHost(hostname) ==
  \E ns \in AllowedNamespaces :
    LET tail == <<".">> \o ns \o ClusterSuffix
        n == Len(hostname) - Len(tail)
    IN /\ n >= 1
       /\ SubSeq(hostname, n + 1, Len(hostname)) = tail
       /\ K8sNameRe(SubSeq(hostname, 1, n))

\* A port list that admits every port.
ALLOWED_PORTS_ANY == {1, 80, 443, 8080, 3000, 3001, 9090, 9999}

ALLOWED_PORTS == {80, 443, 8080, 3000, 3001, 9090}

\* The conditions the guard puts on a parsed URL.
GuardAccepts(u) ==
  /\ u.protocol \in {HttpScheme, HttpsScheme}
  /\ MatchesAllowedHost(ToLowerCase(u.hostname))
  /\ (u.port # <<>> => ParseInt(u.port[1]) \in ALLOWED_PORTS)

\* The checks validateUrl makes once new URL(url, baseUrl) has returned or
\* thrown.
CheckParsedUrl(parsed) ==
  IF ~parsed.ok
  THEN Throw(ValidationError("Invalid URL"))
  ELSE IF parsed.v.protocol \notin {HttpScheme, HttpsScheme}
  THEN Throw(ValidationError("Only HTTP and HTTPS protocols are allowed"))
  ELSE IF ~MatchesAllowedHost(ToLowerCase(parsed.v.hostname))
  THEN Throw(ValidationError("Only cluster-internal services are allowed"))
  ELSE IF parsed.v.port # <<>> /\ ParseInt(parsed.v.port[1]) \notin ALLOWED_PORTS
  THEN Throw(ValidationError("Port is not allowed"))
  ELSE Ok(parsed.v)

validateUrl(url, baseUrl) == CheckParsedUrl(ParseUrl(url, baseUrl))

\* `http://${serviceName}.${namespace}.svc.cluster.local:${port}`
ClusterUrl(serviceName, namespace, port) ==
  <<"http", ":", "/", "/">> \o serviceName \o <<".">> \o namespace
    \o ClusterSuffix \o <<":", PortStr(port)>>

\* ----------------------------------------------------------- rate limiter

VARIABLES
  now,           \* Date.now()
  requests,      \* RateLimiter.requests: key -> [count, resetTime]
  shadow,        \* a second limiter, given the same checks and never swept
  seen,          \* seen[k][t]: checks made for key k at time t
  okAt,          \* okAt[k][t]: checks for key k at time t that returned
  inflight,      \* per handler slot: the key of the invocation suspended in I/O, or <<>>
  lastCheck      \* the latest check: its key, its outcome, the shadow's outcome

rlVars == <<now, requests, shadow, seen, okAt, inflight, lastCheck>>

\* The test_endpoint handler.
VARIABLES
  variant,       \* which of the two testEndpoint sources is built
  te,            \* the current invocation: its position, arguments and locals
  probes,        \* requests handed to the HttpClient by the current invocation
  guardReturned, \* hrefs validateUrl has returned in the current invocation
  result         \* the envelope the latest invocation returned

teVars == <<variant, te, probes, guardReturned, result>>

\* The discovery engine.
VARIABLES
  disc,          \* the current discoverEndpoints call: its position and arguments
  dtrace,        \* the collaborator calls it has made, in order
  dlast,         \* the latest collaborator response it received
  dresult        \* what the call returned (or threw)

discVars == <<disc, dtrace, dlast, dresult>>

\* The handlers other than testEndpoint, the HTTP API in front of all seven,
\* and the validators applied on their own.
VARIABLES
  tool,          \* the current invocation: its position and its locals
  tsteps,        \* what it has done, in order: validator calls, limiter checks, collaborator calls
  tresult,       \* the envelope the latest invocation returned
  http,          \* the HTTP API server: its environment, the request in hand, its response
  applied,       \* the latest application of a validator: its input and what it returned or threw
  sse            \* the SSE server: its environment, activeSessions, the transports, the request in hand

toolVars == <<tool, tsteps, tresult, http, applied, sse>>

vars == <<rlVars, teVars, discVars, toolVars>>

\* Map.set(key, value)
MapSet(m, key, value) ==
  [k \in DOMAIN m \cup {key} |-> IF k = key THEN value ELSE m[k]]

EmptyMap == <<>>

\* RateLimiter.check at time t: the map afterwards, and whether it threw.
RateLimiterCheckOffByOne(reqs, key, t) ==
  IF key \notin DOMAIN reqs \/ t > reqs[key].resetTime
  THEN [requests |-> MapSet(reqs, key, [count |-> 1, resetTime |-> t + WindowMs]),
        threw |-> FALSE]
  ELSE IF reqs[key].count > MaxRequests
  THEN [requests |-> reqs, threw |-> TRUE]
  ELSE [requests |-> [reqs EXCEPT ![key].count = @ + 1], threw |-> FALSE]

RateLimiterCheckLostUpdate(reqs, key, t) ==
  IF key \notin DOMAIN reqs \/ t > reqs[key].resetTime
  THEN [requests |-> MapSet(reqs, key, [count |-> 1, resetTime |-> t + WindowMs]),
        threw |-> FALSE]
  ELSE IF reqs[key].count >= MaxRequests
  THEN [requests |-> reqs, threw |-> TRUE]
  ELSE [requests |-> reqs, threw |-> FALSE]

RateLimiterCheck(reqs, key, t) ==
  IF key \notin DOMAIN reqs \/ t > reqs[key].resetTime
  THEN [requests |-> MapSet(reqs, key, [count |-> 1, resetTime |-> t + WindowMs]),
        threw |-> FALSE]
  ELSE IF reqs[key].count >= MaxRequests
  THEN [requests |-> reqs, threw |-> TRUE]
  ELSE [requests |-> [reqs EXCEPT ![key].count = @ + 1], threw |-> FALSE]

\* RateLimiter.cleanup at time t.
RateLimiterCleanupEager(reqs, t) ==
  LET keep == { k \in DOMAIN reqs : ~(t >= reqs[k].resetTime) }
  IN [k \in keep |-> reqs[k]]

RateLimiterCleanup(reqs, t) ==
  LET keep == { k \in DOMAIN reqs : ~(t > reqs[k].resetTime) }
  IN [k \in keep |-> reqs[k]]

\* The rate-limit keys of the limiter's own specification.
RLKeys == { <<"health", ":", "a">>, <<"discover", ":", "a">> }

Handlers == 1..NumHandlers

RECURSIVE SumFrom(_, _)
\* Sum of f[t] for the times t of its domain from t0 on.
SumFrom(f, t0) ==
  IF t0 > MaxTime THEN 0
  ELSE (IF t0 >= 0 THEN f[t0] ELSE 0) + SumFrom(f, t0 + 1)

RLInit ==
  /\ now = 0
  /\ requests = EmptyMap
  /\ shadow = EmptyMap
  /\ seen = [k \in RLKeys |-> [t \in 0..MaxTime |-> 0]]
  /\ okAt = [k \in RLKeys |-> [t \in 0..MaxTime |-> 0]]
  /\ inflight = [h \in Handlers |-> <<>>]
  /\ lastCheck = [n |-> 0, key |-> <<>>, threw |-> FALSE, shadowThrew |-> FALSE]

\* A handler invocation starts: it runs synchronously up to its rate-limit
\* check, and suspends in I/O if the check returned.
Invoke(h, key) ==
  /\ inflight[h] = <<>>
  /\ lastCheck.n < MaxChecks
  /\ LET r == RateLimiterCheck(requests, key, now)
         sh == RateLimiterCheck(shadow, key, now)
     IN /\ requests' = r.requests
        /\ shadow' = sh.requests
        /\ seen' = [seen EXCEPT ![key][now] = @ + 1]
        /\ okAt' = [okAt EXCEPT ![key][now] = @ + (IF r.threw THEN 0 ELSE 1)]
        /\ inflight' = [inflight EXCEPT ![h] = IF r.threw THEN <<>> ELSE key]
        /\ lastCheck' = [n |-> lastCheck.n + 1, key |-> key, threw |-> r.threw,
                         shadowThrew |-> sh.threw]
  /\ UNCHANGED <<now, teVars, discVars, toolVars>>

\* The I/O of a suspended invocation completes and the handler returns.
Resume(h) ==
  /\ inflight[h] # <<>>
  /\ inflight' = [inflight EXCEPT ![h] = <<>>]
  /\ UNCHANGED <<now, requests, shadow, seen, okAt, lastCheck, teVars, discVars, toolVars>>

\* The setInterval callback.
Cleanup ==
  /\ requests' = RateLimiterCleanup(requests, now)
  /\ UNCHANGED <<now, shadow, seen, okAt, inflight, lastCheck, teVars, discVars, toolVars>>

Tick ==
  /\ now < MaxTime
  /\ now' = now + 1
  /\ UNCHANGED <<requests, shadow, seen, okAt, inflight, lastCheck, teVars, discVars, toolVars>>



\* -------------------------------------------------------- service registry

SERVICE_REGISTRY ==
  << [ name |-> <<"homepage">>,
       namespace |-> <<"default">>,
       port |-> 8080,
       baseUrl |-> <<"http", ":", "/", "/", "homepage", ".", "default", ".",
                     "svc", ".", "cluster", ".", "local", ":", "8080">>,
       healthEndpoint |-> <<"/">>,
       endpoints |->
         << [path |-> <<"/">>, method |-> <<"GET">>,
             description |-> "Main homepage"],
            [path |-> <<"/", "about", ".", "html">>, method |-> <<"GET">>,
             description |-> "About page"],
            [path |-> <<"/", "api", "/", "fetch", "-", "data">>, method |-> <<"GET">>,
             description |-> "Fetch and save homepage data from MongoDB"],
            [path |-> <<"/", "api", "/", "cluster", "-", "metrics">>, method |-> <<"GET">>,
             description |-> "Get cluster metrics (nodes, pods, CPU, memory)"],
            [path |-> <<"/", "api", "/", "add", "-", "project">>, method |-> <<"POST">>,
             description |-> "Add project with image upload (requires admin)"],
            [path |-> <<"/", "api", "/", "add", "-", "creator">>, method |-> <<"POST">>,
             description |-> "Add creator to database (requires admin)"],
            [path |-> <<"/", "api", "/", "add", "-", "technology">>, method |-> <<"POST">>,
             description |-> "Add technology to database (requires admin)"] >> ] >>

\* SERVICE_REGISTRY.find(s => s.name === serviceName && s.namespace === namespace)
RegistryFind(serviceName, namespace) ==
  LET hits == { i \in 1..Len(SERVICE_REGISTRY) :
                  /\ SERVICE_REGISTRY[i].name = serviceName
                  /\ SERVICE_REGISTRY[i].namespace = namespace }
  IN IF hits = {}
     THEN [found |-> FALSE]
     ELSE [found |-> TRUE,
           config |-> SERVICE_REGISTRY[CHOOSE i \in hits : \A j \in hits : i <= j]]

\* --------------------------------------------------------- error envelope

ConfigurationErrorMessage == "Configuration error: Unable to access cluster resources"

\* The texts with "kubeconfig" or "secret" in them among those the model's
\* collaborators produce, and the prefixes the KubernetesClient puts before
\* the text of a failure it wraps.
SensitiveTexts ==
  { "Failed to load Kubernetes configuration. Ensure kubeconfig is available or running in-cluster.",
    "ENOENT: no such file or directory, open /var/run/secrets/kubernetes.io/serviceaccount/token" }

WrappingPrefixes ==
  { "", "Failed to list services: ", "Failed to list deployments: ",
    "Failed to get service: ", "Failed to get deployment: ", "Failed to list pods: " }

\* message.includes("kubeconfig") || message.includes("secret")
MentionsSensitive(message) ==
  \E prefix \in WrappingPrefixes, text \in SensitiveTexts : message = prefix \o text

\* error instanceof Error: a thrown value that is no Error has no message.
InstanceOfError(error) == "message" \in DOMAIN error

\* A sanitizeError that passes every message on.
sanitizeErrorVerbatim(error) ==
  IF InstanceOfError(error) THEN error.message ELSE "An unknown error occurred"

sanitizeError(error) ==
  IF InstanceOfError(error)
  THEN IF MentionsSensitive(error.message) THEN ConfigurationErrorMessage
       ELSE error.message
  ELSE "An unknown error occurred"

\* The envelope a handler returns.  errorName is the class of the exception
\* the handler caught; statusCode 0 and from <<>> stand for absent fields.
ErrorEnvelope(error) ==
  [isError |-> TRUE, success |-> FALSE, error |-> sanitizeError(error),
   errorName |-> error.name, statusCode |-> 0, from |-> <<>>]

NoResult ==
  [isError |-> FALSE, success |-> FALSE, error |-> "", errorName |-> "",
   statusCode |-> 0, from |-> <<>>]

\* ------------------------------------------------------------ HttpClient

\* What the network does with one request: an HTTP response with a status,
\* a refused connection, a timeout, or another transport failure.
ProbeOutcomes ==
  { [kind |-> "response", status |-> 200, body |-> Undefined],
    [kind |-> "response", status |-> 404, body |-> Undefined],
    [kind |-> "response", status |-> 500, body |-> Undefined],
    [kind |-> "refused", status |-> 0, body |-> Undefined],
    [kind |-> "timeout", status |-> 0, body |-> Undefined],
    [kind |-> "failed", status |-> 0, body |-> Undefined] }

\* HttpClient.get / head / options: any status is returned, a transport
\* failure is thrown as HttpError.
HttpClientRequest(outcome) ==
  CASE outcome.kind = "response" ->
         Ok([statusCode |-> outcome.status, body |-> outcome.body])
    [] outcome.kind = "refused" ->
         Throw(HttpError("Connection refused - service may be down"))
    [] outcome.kind = "timeout" -> Throw(HttpError("Request timeout"))
    [] OTHER -> Throw(HttpError("HTTP request failed"))

\* ------------------------------------------------------------ test_endpoint

\* The arguments a caller may pass: a registered, an unregistered and a
\* missing service name; an absent and a non-allow-listed namespace; a plain
\* path, a path starting with "//", and a path without its slash; methods in
\* several spellings, a forbidden one and a falsy non-string.
TestEndpointArgs ==
  [ serviceName : { Str(<<"homepage">>), Str(<<"a">>), Undefined },
    endpoint : { Str(<<"/", "x">>),
                 Str(<<"/", "/", "evil", ".", "com", "/", "x">>),
                 Str(<<"x">>) },
    method : { Undefined, Str(<<"get">>), Str(<<"HEAD">>), Str(<<"OPTIONS">>),
               Str(<<"POST">>), Num(0) },
    namespace : { Undefined, Str(<<"prod">>) },
    queryParams : { Undefined, Obj(<< << <<"q">>, Num(1) >> >>) },
    headers : { Undefined },
    timeout : { Undefined } ]

NoArgs ==
  [ serviceName |-> Undefined, endpoint |-> Undefined, method |-> Undefined,
    namespace |-> Undefined, queryParams |-> Undefined, headers |-> Undefined,
    timeout |-> Undefined ]

\* The validation block of testEndpoint: the validators in the order the
\* handler calls them; the first failure is thrown.
TestEndpointValidate(args) ==
  LET sn == validateServiceName(args.serviceName)
      ep == validateEndpoint(args.endpoint)
      me == validateHttpMethod(OrElse(args.method, Str(<<"GET">>)))
      ns == validateNamespace(args.namespace)
      qp == validateQueryParams(args.queryParams)
      hd == validateHeaders(args.headers)
      to == validateTimeout(args.timeout)
  IN IF ~sn.ok THEN sn
     ELSE IF ~ep.ok THEN ep
     ELSE IF ~me.ok THEN me
     ELSE IF ~ns.ok THEN ns
     ELSE IF ~qp.ok THEN qp
     ELSE IF ~hd.ok THEN hd
     ELSE IF ~to.ok THEN to
     ELSE Ok([serviceName |-> sn.v, endpoint |-> ep.v, method |-> me.v,
              namespace |-> ns.v, queryParams |-> qp.v, headers |-> hd.v,
              timeout |-> to.v])

\* `test:${serviceName}:${endpoint}`
TestEndpointKey(serviceName, endpoint) ==
  <<"test", ":">> \o serviceName \o <<":">> \o endpoint

\* registryConfig?.port ? [registryConfig.port] : [8080, 3000, 3001]
TestEndpointPorts(reg) ==
  IF reg.found /\ reg.config.port # 0 THEN <<reg.config.port>> ELSE <<8080, 3000, 3001>>

\* url.searchParams.append(...) on the URL object an attempt has built.
WithSearchParams(url, queryParams) ==
  IF url.ok THEN Ok(AppendSearchParams(url.v, queryParams)) ELSE url

\* The URL of an attempt in the source that calls the guard:
\* validateUrl(`${baseUrl}${endpoint}`, baseUrl), then the query parameters.
BuildUrlValidated(baseUrl, endpoint, queryParams) ==
  WithSearchParams(validateUrl(baseUrl \o endpoint, baseUrl), queryParams)

\* The URL of an attempt in the source that does not:
\* new URL(endpoint, baseUrl), then the query parameters.
BuildUrlUnvalidated(baseUrl, endpoint, queryParams) ==
  WithSearchParams(ParseUrl(endpoint, baseUrl), queryParams)

Variants == {"validateUrl", "newURL"}

BuildUrl(v, baseUrl, endpoint, queryParams) ==
  IF v = "validateUrl"
  THEN BuildUrlValidated(baseUrl, endpoint, queryParams)
  ELSE BuildUrlUnvalidated(baseUrl, endpoint, queryParams)

\* href without its query string.
WithoutQuery(href) ==
  LET q == IndexOf(href, "?")
  IN IF q = 0 THEN href ELSE SubSeq(href, 1, q - 1)

\* What validateUrl has returned once an attempt's URL is built.
GuardReturnedAfter(v, url) ==
  IF v = "validateUrl" THEN {WithoutQuery(Href(url))} ELSE {}

TEIdle ==
  [ pc |-> "idle", args |-> NoArgs, serviceName |-> <<>>, namespace |-> <<>>,
    endpoint |-> <<>>, method |-> <<>>, queryParams |-> <<>>,
    registered |-> FALSE, ports |-> <<>>, attempt |-> 0,
    firstError |-> Error("") ]

TEInit ==
  /\ variant \in Variants
  /\ te = TEIdle
  /\ probes = <<>>
  /\ guardReturned = {}
  /\ result = NoResult

TEReturn(args, envelope) ==
  /\ te' = [TEIdle EXCEPT !.pc = "returned", !.args = args]
  /\ result' = envelope

\* The primary attempt: the method switch and the first request.
TestEndpointPrimary(args, in, reg, ports, url) ==
  IF ~url.ok
  THEN /\ TEReturn(args, ErrorEnvelope(url.err))
       /\ UNCHANGED <<probes, guardReturned>>
  ELSE IF in.method \notin SafeMethods
  THEN /\ TEReturn(args, ErrorEnvelope(Error("Unsupported method")))
       /\ guardReturned' = GuardReturnedAfter(variant, url.v)
       /\ UNCHANGED probes
  ELSE /\ te' = [ pc |-> "await", args |-> args,
                  serviceName |-> in.serviceName, namespace |-> in.namespace,
                  endpoint |-> in.endpoint, method |-> in.method,
                  queryParams |-> in.queryParams, registered |-> reg.found,
                  ports |-> ports, attempt |-> 1, firstError |-> Error("") ]
       /\ probes' = << [method |-> in.method, href |-> Href(url.v),
                        attempt |-> 1, outcome |-> "pending"] >>
       /\ guardReturned' = GuardReturnedAfter(variant, url.v)
       /\ UNCHANGED result

\* registryConfig?.baseUrl || `http://${serviceName}.${namespace}...:${port}`
TestEndpointBaseUrl(in, reg, ports) ==
  IF reg.found /\ reg.config.baseUrl # <<>>
  THEN reg.config.baseUrl
  ELSE ClusterUrl(in.serviceName, in.namespace, ports[1])

\* The ports to try and the URL of the primary attempt.
TestEndpointTarget(args, in, reg, ports) ==
  TestEndpointPrimary(args, in, reg, ports,
    BuildUrl(variant, TestEndpointBaseUrl(in, reg, ports), in.endpoint, in.queryParams))

\* After rateLimiter.check: the limiter's refusal is thrown, otherwise the
\* registry is consulted.
TestEndpointLimited(args, in, rl, reg) ==
  /\ requests' = rl.requests
  /\ IF rl.threw
     THEN /\ TEReturn(args, ErrorEnvelope(RateLimitError("Rate limit exceeded")))
          /\ UNCHANGED <<probes, guardReturned>>
     ELSE TestEndpointTarget(args, in, reg, TestEndpointPorts(reg))

\* After the validation block.
TestEndpointValidated(args, in) ==
  IF ~in.ok
  THEN /\ TEReturn(args, ErrorEnvelope(in.err))
       /\ UNCHANGED <<requests, probes, guardReturned>>
  ELSE TestEndpointLimited(args, in.v,
         RateLimiterCheck(requests, TestEndpointKey(in.v.serviceName, in.v.endpoint), now),
         RegistryFind(in.v.serviceName, in.v.namespace))

\* testEndpoint(args), from its entry to its first await (or its return).
TestEndpointCall(args) ==
  /\ te.pc = "idle"
  /\ TestEndpointValidated(args, TestEndpointValidate(args))
  /\ UNCHANGED <<variant, now, shadow, seen, okAt, inflight, lastCheck, discVars, toolVars>>

\* The URL of the fallback attempt for ports[i].
AltUrl(i) ==
  BuildUrl(variant, ClusterUrl(te.serviceName, te.namespace, te.ports[i]),
           te.endpoint, te.queryParams)

\* The first port from index i on whose URL can be built (the loop skips a
\* port whose URL throws), or 0 when the loop runs out of ports.
NextAttempt(i) ==
  LET usable == { j \in i..Len(te.ports) : AltUrl(j).ok }
  IN IF usable = {} THEN 0 ELSE CHOOSE j \in usable : \A k \in usable : j <= k

\* if (method === "GET" && !registryConfig && ports.length > 1)
FallbackAllowed ==
  te.method = <<"GET">> /\ ~te.registered /\ Len(te.ports) > 1

MarkLast(log, o) == [log EXCEPT ![Len(log)].outcome = o]

\* The request to ports[next] of the fallback loop.
TestEndpointFallback(next, url, firstError) ==
  /\ te' = [te EXCEPT !.attempt = next, !.firstError = firstError]
  /\ probes' = Append(MarkLast(probes, "failed"),
                 [ method |-> <<"GET">>, href |-> Href(url),
                   attempt |-> next, outcome |-> "pending" ])
  /\ guardReturned' = guardReturned \cup GuardReturnedAfter(variant, url)
  /\ UNCHANGED result

\* The handler after its await: r is what the request returned or threw,
\* next the port index the fallback loop would try (0: none).
TestEndpointResumed(r, next, firstError) ==
  IF r.ok
  THEN /\ te' = [te EXCEPT !.pc = "returned"]
       /\ result' = [ isError |-> FALSE,
                      success |-> r.v.statusCode >= 200 /\ r.v.statusCode < 400,
                      error |-> "", errorName |-> "",
                      statusCode |-> r.v.statusCode,
                      from |-> probes[Len(probes)].href ]
       /\ probes' = MarkLast(probes, "answered")
       /\ UNCHANGED guardReturned
  ELSE IF next # 0
  THEN TestEndpointFallback(next, AltUrl(next).v, firstError)
  ELSE /\ te' = [te EXCEPT !.pc = "returned", !.firstError = firstError]
       /\ result' = ErrorEnvelope(firstError)
       /\ probes' = MarkLast(probes, "failed")
       /\ UNCHANGED guardReturned

\* A handler that rethrows the error of the attempt that failed last.
LastError(r) == IF ~r.ok THEN r.err ELSE te.firstError

\* The error `throw error` rethrows: the primary attempt's.
FirstError(r) == IF te.attempt = 1 /\ ~r.ok THEN r.err ELSE te.firstError

\* The pending request completes: the handler resumes after its await and
\* runs to its next await or to its return.
TestEndpointResponse(outcome) ==
  /\ te.pc = "await"
  /\ TestEndpointResumed(HttpClientRequest(outcome),
       IF FallbackAllowed THEN NextAttempt(te.attempt + 1) ELSE 0,
       FirstError(HttpClientRequest(outcome)))
  /\ UNCHANGED <<variant, rlVars, discVars, toolVars>>

\* The caller has its envelope; the next call starts from a fresh invocation.
TestEndpointDone ==
  /\ te.pc = "returned"
  /\ te' = TEIdle
  /\ probes' = <<>>
  /\ guardReturned' = {}
  /\ result' = NoResult
  /\ UNCHANGED <<variant, rlVars, discVars, toolVars>>

\* ------------------------------------------------- JS property access, JSON

KubernetesError(msg) == [name |-> "KubernetesError", message |-> msg]
SyntaxError(msg) == [name |-> "SyntaxError", message |-> msg]

Nullish(val) == val.t \in {"undefined", "null"}

\* val?.[key]: the property of an object, undefined on anything else the
\* model reads properties from.
GetProp(val, key) ==
  IF val.t = "object" /\ \E i \in 1..Len(val.entries) : val.entries[i][1] = key
  THEN val.entries[CHOOSE i \in 1..Len(val.entries) : val.entries[i][1] = key][2]
  ELSE Undefined

\* `${i}` for the indices the model uses.
DecimalTok(i) ==
  CASE i = 0 -> "0"
    [] i = 1 -> "1"
    [] i = 2 -> "2"
    [] OTHER -> "3"

\* Object.entries(val) of a value that is not null or undefined: an object's
\* own pairs, the indexed elements of an array or of a string, nothing for
\* a number or a boolean.
ObjectEntries(val) ==
  CASE val.t = "object" -> val.entries
    [] val.t = "array" ->
         [i \in 1..Len(val.items) |-> << <<DecimalTok(i - 1)>>, val.items[i] >>]
    [] val.t = "string" ->
         [i \in 1..Len(val.str) |-> << <<DecimalTok(i - 1)>>, Str(<<val.str[i]>>) >>]
    [] OTHER -> <<>>

\* The texts the endpoint annotation carries in the model.
JsonEndpointList ==
  <<"[", "{", "\"", "path", "\"", ":", "\"", "/", "a", "\"", "}", "]">>
JsonEmptyList == <<"[", "]">>
JsonObject == <<"{", "\"", "a", "\"", ":", "1", "}">>
JsonNull == <<"null">>

\* JSON.parse on those texts; any other text is a SyntaxError.
JsonParse(text) ==
  CASE text = JsonEndpointList ->
         Ok(Arr(<< Obj(<< << <<"path">>, Str(<<"/", "a">>) >> >>) >>))
    [] text = JsonEmptyList -> Ok(Arr(<<>>))
    [] text = JsonObject -> Ok(Obj(<< << <<"a">>, Num(1) >> >>))
    [] text = JsonNull -> Ok(Null)
    [] OTHER -> Throw(SyntaxError("Unexpected token in JSON"))

\* -------------------------------------------------------- ServiceDiscovery

swaggerPaths ==
  << <<"/", "swagger", ".", "json">>,
     <<"/", "swagger", ".", "yaml">>,
     <<"/", "api", "-", "docs">>,
     <<"/", "openapi", ".", "json">>,
     <<"/", "v3", "/", "api", "-", "docs">>,
     <<"/", "api", "/", "swagger", ".", "json">> >>

Verbs == {"get", "post", "put", "delete", "patch", "head", "options"}

\* [...].includes(method.toLowerCase())
IsVerb(key) == Len(key) = 1 /\ LowerTok(key[1]) \in Verbs

\* extractParameters: undefined unless params is an array; reading
\* param.name of a null element throws.
ExtractParametersThrows(params) ==
  params.t = "array" /\ \E i \in 1..Len(params.items) : Nullish(params.items[i])

extractParameters(params) ==
  IF params.t # "array"
  THEN Undefined
  ELSE Arr([i \in 1..Len(params.items) |->
         Obj(<< << <<"name">>, GetProp(params.items[i], <<"name">>) >>,
                << <<"type">>,
                   OrElse(OrElse(GetProp(GetProp(params.items[i], <<"schema">>), <<"type">>),
                                 GetProp(params.items[i], <<"type">>)),
                          Str(<<"string">>)) >>,
                << <<"required">>,
                   OrElse(GetProp(params.items[i], <<"required">>), Bool(FALSE)) >>,
                << <<"location">>,
                   OrElse(GetProp(params.items[i], <<"in">>), Str(<<"query">>)) >> >>)])

extractResponseType(responses) ==
  IF ~Truthy(responses)
  THEN Undefined
  ELSE IF Truthy(GetProp(GetProp(GetProp(
            OrElse(OrElse(GetProp(responses, <<"200">>), GetProp(responses, <<"201">>)),
                   GetProp(responses, <<"204">>)),
            <<"content">>), <<"application", "/", "json">>), <<"schema">>))
  THEN Str(<<"application", "/", "json">>)
  ELSE Undefined

\* !security || security.length === 0
detectAuthentication(security) ==
  IF ~Truthy(security) \/ (security.t = "array" /\ security.items = <<>>)
  THEN Str(<<"none">>)
  ELSE Str(<<"unknown">>)

\* The endpoint pushed for one [method, details] pair of a path item.
SwaggerEndpoint(path, method, details) ==
  Obj(<< << <<"path">>, Str(path) >>,
         << <<"method">>, Str(ToUpperCase(method)) >>,
         << <<"description">>,
            OrElse(GetProp(details, <<"summary">>), GetProp(details, <<"description">>)) >>,
         << <<"parameters">>, extractParameters(GetProp(details, <<"parameters">>)) >>,
         << <<"responseType">>, extractResponseType(GetProp(details, <<"responses">>)) >>,
         << <<"authentication">>, detectAuthentication(GetProp(details, <<"security">>)) >> >>)

\* The inner loop throws a TypeError on a null path item, on null details
\* under a verb, and on a null parameter.
PathItemThrows(methods) ==
  \/ Nullish(methods)
  \/ \E i \in 1..Len(ObjectEntries(methods)) :
       /\ IsVerb(ObjectEntries(methods)[i][1])
       /\ \/ Nullish(ObjectEntries(methods)[i][2])
          \/ ExtractParametersThrows(
               GetProp(ObjectEntries(methods)[i][2], <<"parameters">>))

RECURSIVE PathItemEndpoints(_, _)
PathItemEndpoints(path, pairs) ==
  IF pairs = <<>>
  THEN <<>>
  ELSE (IF IsVerb(pairs[1][1])
        THEN <<SwaggerEndpoint(path, pairs[1][1], pairs[1][2])>>
        ELSE <<>>)
       \o PathItemEndpoints(path, Tail(pairs))

RECURSIVE PathsEndpoints(_)
PathsEndpoints(pairs) ==
  IF pairs = <<>>
  THEN <<>>
  ELSE PathItemEndpoints(pairs[1][1], ObjectEntries(pairs[1][2]))
       \o PathsEndpoints(Tail(pairs))

\* Object.entries(spec.paths || {})
SpecPaths(spec) == ObjectEntries(OrElse(GetProp(spec, <<"paths">>), Obj(<<>>)))

parseSwaggerSpec(spec, baseUrl) ==
  IF \E i \in 1..Len(SpecPaths(spec)) : PathItemThrows(SpecPaths(spec)[i][2])
  THEN Throw(TypeError("Cannot convert undefined or null to object"))
  ELSE Ok([ serviceName |->
              OrElse(GetProp(GetProp(spec, <<"info">>), <<"title">>), Str(<<"unknown">>)),
            baseUrl |-> baseUrl,
            endpoints |-> PathsEndpoints(SpecPaths(spec)),
            discoveryMethod |-> "swagger",
            documentation |-> GetProp(GetProp(spec, <<"info">>), <<"description">>) ])

\* registryConfig?.baseUrl || `http://${serviceName}.${namespace}...:${port || 8080}`
DiscoveryBaseUrl(serviceName, namespace, reg) ==
  IF reg.found /\ reg.config.baseUrl # <<>>
  THEN reg.config.baseUrl
  ELSE ClusterUrl(serviceName, namespace,
         IF reg.found /\ reg.config.port # 0 THEN reg.config.port ELSE 8080)

\* A variant whose registry check never succeeds.
RegistryNeverPopulated(reg) == FALSE

\* registryConfig && registryConfig.endpoints && registryConfig.endpoints.length > 0
RegistryEndpointsPopulated(reg) == reg.found /\ Len(reg.config.endpoints) > 0

RegistryResult(serviceName, reg) ==
  [ serviceName |-> Str(serviceName),
    baseUrl |-> reg.config.baseUrl,
    endpoints |->
      [i \in 1..Len(reg.config.endpoints) |->
        Obj(<< << <<"path">>, Str(reg.config.endpoints[i].path) >>,
               << <<"method">>, Str(reg.config.endpoints[i].method) >>,
               << <<"description">>, Str(<<reg.config.endpoints[i].description>>) >> >>)],
    discoveryMethod |-> "registry",
    documentation |-> Undefined ]

\* A variant that also probes in manual mode.
SwaggerModesAll == {"auto", "swagger", "manual"}

\* method === "auto" || method === "swagger"
SwaggerModes == {"auto", "swagger"}

defaultEndpoints ==
  << Obj(<< << <<"path">>, Str(<<"/", "health">>) >>,
            << <<"method">>, Str(<<"GET">>) >>,
            << <<"description">>, Str(<<"Health check endpoint">>) >> >>),
     Obj(<< << <<"path">>, Str(<<"/", "api", "/", "health">>) >>,
            << <<"method">>, Str(<<"GET">>) >>,
            << <<"description">>, Str(<<"API health check endpoint">>) >> >>) >>

EndpointsAnnotation == <<"mcp", ".", "clusterflux", ".", "io", "/", "endpoints">>

\* What the cluster answers to getService: a Service object, or an error the
\* client raises as KubernetesError (404, another API error).
ServiceWith(annotations) ==
  [ kind |-> "service",
    body |-> Obj(<< << <<"metadata">>, Obj(<< << <<"annotations">>, annotations >> >>) >> >>) ]

AnnotationTexts ==
  { JsonEndpointList, JsonEmptyList, JsonObject, JsonNull,
    <<"[", "{">>, <<"oops">>, <<>> }

K8sOutcomes ==
  { [kind |-> "notFound", body |-> Undefined],
    [kind |-> "apiError", body |-> Undefined],
    [kind |-> "service", body |-> Obj(<<>>)],
    ServiceWith(Undefined),
    ServiceWith(Obj(<< << <<"app">>, Str(<<"a">>) >> >>)) }
  \cup { ServiceWith(Obj(<< << EndpointsAnnotation, Str(text) >> >>)) : text \in AnnotationTexts }

\* KubernetesClient.getService
GetService(outcome, serviceName, namespace) ==
  CASE outcome.kind = "service" -> Ok(outcome.body)
    [] outcome.kind = "notFound" -> Throw(KubernetesError("Service not found in namespace"))
    [] OTHER -> Throw(KubernetesError("Failed to get service"))

DefaultResult(serviceName, baseUrl) ==
  [ serviceName |-> Str(serviceName), baseUrl |-> baseUrl,
    endpoints |-> defaultEndpoints, discoveryMethod |-> "default",
    documentation |-> Undefined ]

\* The body of discoverFromKubernetes once getService has settled: the
\* annotation, when present and valid JSON, else the defaults.
AnnotationText(service) ==
  GetProp(OrElse(GetProp(GetProp(service, <<"metadata">>), <<"annotations">>), Obj(<<>>)),
          EndpointsAnnotation)

AnnotationsResult(serviceName, baseUrl, parsed) ==
  [ serviceName |-> Str(serviceName), baseUrl |-> baseUrl,
    endpoints |-> IF parsed.t = "array" THEN parsed.items ELSE <<>>,
    discoveryMethod |-> "annotations",
    documentation |-> Undefined ]

\* A variant without the outer catch: the client's error escapes.
discoverFromKubernetesNoCatch(serviceName, baseUrl, service) ==
  IF ~service.ok
  THEN service
  ELSE Ok(DefaultResult(serviceName, baseUrl))

discoverFromKubernetes(serviceName, baseUrl, service) ==
  IF ~service.ok
  THEN Ok(DefaultResult(serviceName, baseUrl))
  ELSE IF ~Truthy(AnnotationText(service.v))
  THEN Ok(DefaultResult(serviceName, baseUrl))
  ELSE IF ~JsonParse(AnnotationText(service.v).str).ok
  THEN Ok(DefaultResult(serviceName, baseUrl))
  ELSE Ok(AnnotationsResult(serviceName, baseUrl,
            JsonParse(AnnotationText(service.v).str).v))

\* The arguments of a discovery call, and what the network may answer.
DiscoveryNames == { <<"homepage">>, <<"a">> }
DiscoveryNamespaces == { <<"default">>, <<"prod">> }
DiscoveryModes == {"auto", "manual", "swagger"}

PetsSpec ==
  Obj(<< << <<"info">>,
            Obj(<< << <<"title">>, Str(<<"Pets">>) >>,
                   << <<"description">>, Str(<<"Pet store">>) >> >>) >>,
         << <<"paths">>,
            Obj(<< << <<"/", "pets">>,
                      Obj(<< << <<"get">>,
                                Obj(<< << <<"summary">>, Str(<<"List pets">>) >>,
                                       << <<"parameters">>,
                                          Arr(<< Obj(<< << <<"name">>, Str(<<"limit">>) >>,
                                                        << <<"schema">>,
                                                           Obj(<< << <<"type">>, Str(<<"integer">>) >> >>) >> >>) >>) >>,
                                       << <<"responses">>,
                                          Obj(<< << <<"200">>,
                                                    Obj(<< << <<"content">>,
                                                              Obj(<< << <<"application", "/", "json">>,
                                                                        Obj(<< << <<"schema">>, Obj(<<>>) >> >>) >> >>) >> >>) >> >>) >> >>) >>,
                             << <<"POST">>,
                                Obj(<< << <<"description">>, Str(<<"Add a pet">>) >>,
                                       << <<"security">>, Arr(<< Obj(<<>>) >>) >> >>) >>,
                             << <<"parameters">>, Arr(<<>>) >> >>) >> >>) >> >>)

\* A document whose only path item is null, one whose operation is null,
\* one without paths, and one whose path item has no verb.
NullItemSpec == Obj(<< << <<"paths">>, Obj(<< << <<"/", "x">>, Null >> >>) >> >>)
NullOperationSpec ==
  Obj(<< << <<"paths">>, Obj(<< << <<"/", "x">>, Obj(<< << <<"get">>, Null >> >>) >> >>) >> >>)
NoPathsSpec == Obj(<< << <<"info">>, Obj(<< << <<"title">>, Str(<<"Empty">>) >> >>) >> >>)
NoVerbSpec ==
  Obj(<< << <<"paths">>, Obj(<< << <<"/", "x">>, Obj(<< << <<"trace">>, Obj(<<>>) >> >>) >> >>) >> >>)
YamlText == Str(<<"openapi", ":", " ", "3">>)

BodyInputs ==
  { Undefined, Str(<<>>), YamlText, PetsSpec, NullItemSpec, NullOperationSpec,
    NoPathsSpec, NoVerbSpec }

DiscoveryProbeOutcomes ==
  { [kind |-> k, status |-> 0, body |-> Undefined] : k \in {"refused", "timeout", "failed"} }
  \cup { [kind |-> "response", status |-> s, body |-> b] : s \in {200, 404}, b \in BodyInputs }

NoOutcome == [kind |-> "none", status |-> 0, body |-> Undefined]

NoDiscovery ==
  [ serviceName |-> Undefined, baseUrl |-> <<>>, endpoints |-> <<>>,
    discoveryMethod |-> "", documentation |-> Undefined ]

DiscIdle ==
  [ pc |-> "idle", serviceName |-> <<>>, namespace |-> <<>>, mode |-> "",
    pathIdx |-> 0, baseUrl |-> <<>> ]

DiscInit ==
  /\ disc = DiscIdle
  /\ dtrace = <<>>
  /\ dlast = [http |-> NoOutcome, k8s |-> NoOutcome]
  /\ dresult = Ok(NoDiscovery)

\* The calls discovery makes on its collaborators.
HttpCall(href) == [kind |-> "http", target |-> href]
K8sCall(serviceName, namespace) ==
  [kind |-> "k8s", target |-> serviceName \o <<"/">> \o namespace]

\* this.httpClient.get(`${baseUrl}${path}`) for swaggerPaths[i].
EnterSwagger(d, i) ==
  /\ disc' = [d EXCEPT !.pc = "swagger", !.pathIdx = i]
  /\ dtrace' = Append(dtrace, HttpCall(d.baseUrl \o swaggerPaths[i]))
  /\ UNCHANGED dresult

\* discoverFromKubernetes up to its await of this.k8sClient.getService.
EnterKubernetes(d) ==
  /\ disc' = [d EXCEPT !.pc = "k8s"]
  /\ dtrace' = Append(dtrace, K8sCall(d.serviceName, d.namespace))
  /\ UNCHANGED dresult

\* discoverEndpoints from its entry: the registry, else the first source.
DiscoverStart(d, reg) ==
  IF RegistryEndpointsPopulated(reg)
  THEN /\ disc' = [d EXCEPT !.pc = "returned"]
       /\ dresult' = Ok(RegistryResult(d.serviceName, reg))
       /\ UNCHANGED dtrace
  ELSE IF d.mode \in SwaggerModes
  THEN EnterSwagger(d, 1)
  ELSE EnterKubernetes(d)

DiscoverCall(serviceName, namespace, mode) ==
  /\ disc.pc = "idle"
  /\ DiscoverStart(
       [ pc |-> "idle", serviceName |-> serviceName, namespace |-> namespace,
         mode |-> mode, pathIdx |-> 0,
         baseUrl |-> DiscoveryBaseUrl(serviceName, namespace,
                                      RegistryFind(serviceName, namespace)) ],
       RegistryFind(serviceName, namespace))
  /\ UNCHANGED <<dlast, rlVars, teVars, toolVars>>

\* The for loop moves to the next path; past the last one discoverFromSwagger
\* throws, which discoverEndpoints catches.
SwaggerNextPath ==
  IF disc.pathIdx < Len(swaggerPaths)
  THEN EnterSwagger(disc, disc.pathIdx + 1)
  ELSE EnterKubernetes(disc)

\* After parseSwaggerSpec: a throw is caught by the loop; a result is
\* returned only with endpoints.
SwaggerParsed(p) ==
  IF ~p.ok
  THEN SwaggerNextPath
  ELSE IF Len(p.v.endpoints) > 0
  THEN /\ disc' = [disc EXCEPT !.pc = "returned"]
       /\ dresult' = Ok(p.v)
       /\ UNCHANGED dtrace
  ELSE EnterKubernetes(disc)

SwaggerResumed(r) ==
  IF r.ok /\ r.v.statusCode = 200 /\ Truthy(r.v.body)
  THEN SwaggerParsed(parseSwaggerSpec(r.v.body, disc.baseUrl))
  ELSE SwaggerNextPath

\* The pending swagger probe completes.
SwaggerResponse(outcome) ==
  /\ disc.pc = "swagger"
  /\ dlast' = [dlast EXCEPT !.http = outcome]
  /\ SwaggerResumed(HttpClientRequest(outcome))
  /\ UNCHANGED <<rlVars, teVars, toolVars>>

\* The pending getService completes.
K8sResponse(outcome) ==
  /\ disc.pc = "k8s"
  /\ dlast' = [dlast EXCEPT !.k8s = outcome]
  /\ disc' = [disc EXCEPT !.pc = "returned"]
  /\ dresult' = discoverFromKubernetes(disc.serviceName, disc.baseUrl,
                  GetService(outcome, disc.serviceName, disc.namespace))
  /\ UNCHANGED <<dtrace, rlVars, teVars, toolVars>>

\* The caller has its result; the next call starts afresh.
DiscoverDone ==
  /\ disc.pc = "returned"
  /\ disc' = DiscIdle
  /\ dtrace' = <<>>
  /\ dlast' = [http |-> NoOutcome, k8s |-> NoOutcome]
  /\ dresult' = Ok(NoDiscovery)
  /\ UNCHANGED <<rlVars, teVars, toolVars>>

\* ---------------------------------------------------------- specifications

\* ------------------------------------------------------- the tool handlers


ToolNames ==
  { "list_services", "get_service_info", "get_service_health", "discover_endpoints",
    "get_endpoint_schema", "get_api_documentation" }

NoEnvelope == [isError |-> FALSE, error |-> "", errorName |-> "", payload |-> [kind |-> "none"]]

\* A handler without its catch block: the exception reaches the caller.
ToolErrorUncaught(error) ==
  [isError |-> FALSE, error |-> error.message, errorName |-> error.name,
   payload |-> [kind |-> "exception"]]

\* catch (error) { return { content: [{ error: sanitizeError(error) }], isError: true } }
ToolError(error) ==
  [isError |-> TRUE, error |-> sanitizeError(error), errorName |-> error.name,
   payload |-> [kind |-> "none"]]

\* return { content: [{ text: JSON.stringify(result) }] }
ToolSuccess(payload) ==
  [isError |-> FALSE, error |-> "", errorName |-> "", payload |-> payload]

\* The arguments object a caller passes; an absent property is undefined.
NoToolArgs ==
  [ serviceName |-> Undefined, namespace |-> Undefined, serviceType |-> Undefined,
    checkEndpoint |-> Undefined, endpoint |-> Undefined, method |-> Undefined,
    format |-> Undefined ]

\* The locals of an invocation.  service is what getService resolved to,
\* deployment what getDeployment did (null once its failure is caught),
\* kubeconfig whether the process has a cluster configuration to load, and
\* calls the number of invocations so far.
ToolIdle ==
  [ pc |-> "idle", name |-> "", awaiting |-> "", args |-> NoToolArgs,
    serviceName |-> <<>>, namespace |-> <<>>, endpoint |-> <<>>, method |-> <<>>,
    service |-> [kind |-> "none"], deployment |-> [kind |-> "null"],
    pods |-> <<>>, items |-> <<>>, url |-> <<>>, idx |-> 0,
    kubeconfig |-> TRUE, calls |-> 0 ]

\* One entry of tsteps.
Step(kind, what, ok) == [kind |-> kind, what |-> what, ok |-> ok, target |-> <<>>]

\* A handler that has returned, and one suspended in an await.
Returned(t, steps, reqs, envelope) ==
  [ tool |-> [t EXCEPT !.pc = "returned", !.awaiting = ""], steps |-> steps,
    requests |-> reqs, result |-> envelope ]

Awaiting(t, what, steps, reqs) ==
  [ tool |-> [t EXCEPT !.pc = "await", !.awaiting = what],
    steps |-> Append(steps, [Step("call", what, TRUE) EXCEPT !.target = t.url]),
    requests |-> reqs, result |-> NoEnvelope ]

\* new KubernetesClient(): the configuration loads, or the constructor throws.
KubeconfigError ==
  KubernetesError("Failed to load Kubernetes configuration. Ensure kubeconfig is available or running in-cluster.")

\* rateLimiter.check(key) in a handler, then the rest of its synchronous part.
RateLimitStep(rl) == Step("check", "rateLimiter.check", ~rl.threw)

\* ------------------------------------------------------------ the cluster

\* Messages the API server or the client library puts in a failed call.
ClusterMessages ==
  { "services is forbidden",
    "ENOENT: no such file or directory, open /var/run/secrets/kubernetes.io/serviceaccount/token" }

\* status.replicas and status.readyReplicas of a Deployment as the API server
\* reports them: a count of zero is left out of the object.  desired is
\* spec.replicas.
DeploymentCounts ==
  { <<Undefined, Undefined>>, <<Num(0), Undefined>>, <<Num(1), Num(1)>>,
    <<Num(2), Undefined>>, <<Num(2), Num(1)>>, <<Num(2), Num(2)>> }

\* What the cluster answers to each call of the KubernetesClient.
ClusterAnswers(call) ==
  CASE call = "listServices" ->
         { [kind |-> "list", items |-> <<>>],
           [kind |-> "list", items |-> << [name |-> <<"a">>, port |-> 0] >>],
           [kind |-> "list", items |-> << [name |-> <<"a">>, port |-> 3000] >>] }
    [] call = "listDeployments" ->
         { [kind |-> "list", items |-> <<>>] }
         \cup { [kind |-> "list",
                 items |-> << [desired |-> d, replicas |-> c[1], readyReplicas |-> c[2]] >>] :
                  d \in {Num(0), Num(2)}, c \in DeploymentCounts }
    [] call = "getService" ->
         { [kind |-> "service", selector |-> s, port |-> p] :
             s \in BOOLEAN, p \in {0, 3000} }
         \cup { [kind |-> "notFound"] }
    [] call = "getDeployment" ->
         { [kind |-> "deployment", replicas |-> Num(2), readyReplicas |-> Num(2)],
           [kind |-> "deployment", replicas |-> Num(2), readyReplicas |-> Undefined],
           [kind |-> "notFound"] }
    [] call = "listPods" ->
         { [kind |-> "list", items |-> <<>>],
           [kind |-> "list", items |-> << [phase |-> "Running", ready |-> TRUE] >>],
           [kind |-> "list", items |-> << [phase |-> "Running", ready |-> TRUE],
                                          [phase |-> "Running", ready |-> FALSE] >>],
           [kind |-> "list", items |-> << [phase |-> "Pending", ready |-> FALSE] >>] }
    [] OTHER -> {}

K8sCalls == {"listServices", "listDeployments", "getService", "getDeployment", "listPods"}

\* A failing call: the client wraps what it caught in a KubernetesError.
K8sFailure(call, message) ==
  KubernetesError(
    (CASE call = "listServices" -> "Failed to list services: "
       [] call = "listDeployments" -> "Failed to list deployments: "
       [] call = "getService" -> "Failed to get service: "
       [] call = "getDeployment" -> "Failed to get deployment: "
       [] OTHER -> "Failed to list pods: ") \o message)

\* KubernetesClient.<call>: what the handler's await yields.
K8sCallResult(call, answer) ==
  CASE answer.kind = "apiError" -> Throw(K8sFailure(call, answer.message))
    [] answer.kind = "notFound" ->
         Throw(KubernetesError(IF call = "getService"
                               THEN "Service not found in namespace"
                               ELSE "Deployment not found in namespace"))
    [] OTHER -> Ok(answer)

\* ----------------------------------------------------------- list_services

\* deploy.status?.readyReplicas === deploy.status?.replicas ? "running"
\*   : deploy.status?.replicas === 0 ? "stopped" : "pending"
DeploymentStatus(deploy) ==
  IF deploy.readyReplicas = deploy.replicas THEN "running"
  ELSE IF deploy.replicas = Num(0) THEN "stopped"
  ELSE "pending"

\* [...serviceList, ...deploymentList], filtered by serviceType when it is truthy.
ListServicesItems(services, deployments, serviceType) ==
  LET serviceList == [i \in 1..Len(services) |->
                        [ name |-> services[i].name, type |-> Str(<<"Service">>),
                          status |-> "running",
                          port |-> IF services[i].port # 0 THEN services[i].port ELSE 8080 ]]
      deploymentList == [i \in 1..Len(deployments) |->
                           [ name |-> <<"unknown">>, type |-> Str(<<"Deployment">>),
                             status |-> DeploymentStatus(deployments[i]), port |-> 0 ]]
  IN IF Truthy(serviceType)
     THEN SelectSeq(serviceList \o deploymentList, LAMBDA item : item.type = serviceType)
     ELSE serviceList \o deploymentList

\* listServices(args) up to its first await.
ListServicesValidated(t, ns, cfg, reqs) ==
  IF ~ns.ok
  THEN Returned(t, <<Step("validate", "namespace", FALSE)>>, reqs, ToolError(ns.err))
  ELSE IF ~cfg
  THEN Returned(t, << Step("validate", "namespace", TRUE),
                      Step("construct", "KubernetesClient", FALSE) >>,
                reqs, ToolError(KubeconfigError))
  ELSE Awaiting([t EXCEPT !.namespace = ns.v], "listServices",
                << Step("validate", "namespace", TRUE),
                   Step("construct", "KubernetesClient", TRUE) >>, reqs)

\* listServices after an await: r is what the awaited call returned or threw.
ListServicesResumed(t, r, steps, reqs) ==
  IF ~r.ok THEN Returned(t, steps, reqs, ToolError(r.err))
  ELSE IF t.awaiting = "listServices"
  THEN Awaiting([t EXCEPT !.items = r.v.items], "listDeployments", steps, reqs)
  ELSE Returned(t, steps, reqs,
         ToolSuccess([ kind |-> "services",
                       services |-> ListServicesItems(t.items, r.v.items,
                                                      t.args.serviceType) ]))

\* -------------------------------------------- get_service_info, get_service_health

\* The two validators both handlers start with.
NameAndNamespace(sn, ns) ==
  IF ~sn.ok THEN [ok |-> FALSE, err |-> sn.err,
                  steps |-> <<Step("validate", "serviceName", FALSE)>>]
  ELSE IF ~ns.ok THEN [ok |-> FALSE, err |-> ns.err,
                       steps |-> << Step("validate", "serviceName", TRUE),
                                    Step("validate", "namespace", FALSE) >>]
  ELSE [ok |-> TRUE, serviceName |-> sn.v, namespace |-> ns.v,
        steps |-> << Step("validate", "serviceName", TRUE),
                     Step("validate", "namespace", TRUE) >>]

\* new KubernetesClient() and the handler's first call, getService.
ConstructThenGetService(t, cfg, steps, reqs) ==
  IF ~cfg
  THEN Returned(t, Append(steps, Step("construct", "KubernetesClient", FALSE)), reqs,
                ToolError(KubeconfigError))
  ELSE Awaiting(t, "getService",
                Append(steps, Step("construct", "KubernetesClient", TRUE)), reqs)

\* getServiceInfo(args) up to its first await: no rateLimiter.check.
GetServiceInfoValidated(t, in, cfg, reqs) ==
  IF ~in.ok THEN Returned(t, in.steps, reqs, ToolError(in.err))
  ELSE ConstructThenGetService(
         [t EXCEPT !.serviceName = in.serviceName, !.namespace = in.namespace],
         cfg, in.steps, reqs)

\* `health:${serviceName}`
HealthKey(serviceName) == <<"health", ":">> \o serviceName

\* getServiceHealth(args) up to its first await.
GetServiceHealthLimited(t, in, rl, cfg) ==
  IF rl.threw
  THEN Returned(t, Append(in.steps, RateLimitStep(rl)), rl.requests,
                ToolError(RateLimitError("Rate limit exceeded")))
  ELSE ConstructThenGetService(
         [t EXCEPT !.serviceName = in.serviceName, !.namespace = in.namespace],
         cfg, Append(in.steps, RateLimitStep(rl)), rl.requests)

GetServiceHealthValidated(t, in, cfg, reqs, time) ==
  IF ~in.ok THEN Returned(t, in.steps, reqs, ToolError(in.err))
  ELSE GetServiceHealthLimited(t, in,
         RateLimiterCheck(reqs, HealthKey(in.serviceName), time), cfg)

\* readyReplicas > 0 && readyReplicas === replicas, each `|| 0`
DeploymentReady(deployment) ==
  /\ deployment.kind = "deployment"
  /\ deployment.readyReplicas.t = "number"
  /\ deployment.readyReplicas.num > 0
  /\ deployment.readyReplicas = deployment.replicas

\* The result getServiceInfo returns.
ServiceInfo(t, pods) ==
  ToolSuccess([ kind |-> "info", name |-> t.serviceName, namespace |-> t.namespace,
                ready |-> DeploymentReady(t.deployment),
                mainPort |-> IF t.service.port # 0 THEN t.service.port ELSE 8080 ])

\* phase === "Running" && ready
RunningPods(pods) == SelectSeq(pods, LAMBDA p : p.phase = "Running" /\ p.ready)

\* runningPods.length > 0 ? "ok" : pods.length === 0 ? "down" : "degraded"
K8sStatus(pods) ==
  IF Len(RunningPods(pods)) > 0 THEN "ok"
  ELSE IF Len(pods) = 0 THEN "down"
  ELSE "degraded"

\* registryConfig?.baseUrl || `http://${serviceName}.${namespace}.svc.cluster.local:${mainPort}`
ServiceBaseUrl(t, reg) ==
  IF reg.found /\ reg.config.baseUrl # <<>>
  THEN reg.config.baseUrl
  ELSE ClusterUrl(t.serviceName, t.namespace,
                  IF t.service.port # 0 THEN t.service.port ELSE 8080)

\* checkEndpoint || registryConfig?.healthEndpoint || "/health"
HealthEndpoint(t, reg) ==
  OrElse(t.args.checkEndpoint,
         IF reg.found /\ reg.config.healthEndpoint # <<>>
         THEN Str(reg.config.healthEndpoint)
         ELSE Str(<<"/", "health">>))

\* A result whose overall status leaves the HTTP check out.
ServiceHealthClusterOnly(t, httpCheck) ==
  ToolSuccess([ kind |-> "health", serviceName |-> t.serviceName,
                status |-> IF K8sStatus(t.pods) = "ok" THEN "healthy" ELSE "unhealthy",
                kubernetes |-> [ podsRunning |-> Len(RunningPods(t.pods)),
                                 podsTotal |-> Len(t.pods),
                                 status |-> K8sStatus(t.pods) ],
                http |-> httpCheck ])

\* The result getServiceHealth returns.
ServiceHealth(t, httpCheck) ==
  ToolSuccess([ kind |-> "health", serviceName |-> t.serviceName,
                status |-> IF K8sStatus(t.pods) = "ok" /\ httpCheck.status = "ok"
                           THEN "healthy" ELSE "unhealthy",
                kubernetes |-> [ podsRunning |-> Len(RunningPods(t.pods)),
                                 podsTotal |-> Len(t.pods),
                                 status |-> K8sStatus(t.pods) ],
                http |-> httpCheck ])

\* The HTTP health check: validateEndpoint inside the inner try, whose catch
\* turns any failure into a failed check.
HealthCheck(t, healthEndpoint, ep, baseUrl, steps, reqs) ==
  IF ~ep.ok
  THEN Returned(t, Append(steps, Step("validate", "checkEndpoint", FALSE)), reqs,
                ServiceHealth(t, [endpoint |-> healthEndpoint, statusCode |-> 0,
                                  status |-> "error"]))
  ELSE Awaiting([t EXCEPT !.endpoint = ep.v, !.url = baseUrl \o ep.v], "http.get",
                Append(steps, Step("validate", "checkEndpoint", TRUE)), reqs)

\* Once the pods are known.
AfterPods(t, steps, reqs) ==
  IF t.name = "get_service_info"
  THEN Returned(t, steps, reqs, ServiceInfo(t, t.pods))
  ELSE HealthCheck(t, HealthEndpoint(t, RegistryFind(t.serviceName, t.namespace)),
         validateEndpoint(HealthEndpoint(t, RegistryFind(t.serviceName, t.namespace))),
         ServiceBaseUrl(t, RegistryFind(t.serviceName, t.namespace)), steps, reqs)

\* getServiceInfo and getServiceHealth after an await on the cluster.
ServiceResumed(t, r, steps, reqs) ==
  CASE t.awaiting = "getService" ->
         IF ~r.ok THEN Returned(t, steps, reqs, ToolError(r.err))
         ELSE Awaiting([t EXCEPT !.service = r.v], "getDeployment", steps, reqs)
    [] t.awaiting = "getDeployment" ->
         \* .catch(() => null)
         IF t.service.selector
         THEN Awaiting([t EXCEPT !.deployment = IF r.ok THEN r.v ELSE [kind |-> "null"]],
                       "listPods", steps, reqs)
         ELSE AfterPods([t EXCEPT !.deployment = IF r.ok THEN r.v ELSE [kind |-> "null"]],
                        steps, reqs)
    [] OTHER ->
         IF ~r.ok THEN Returned(t, steps, reqs, ToolError(r.err))
         ELSE AfterPods([t EXCEPT !.pods = r.v.items], steps, reqs)

\* getServiceHealth after the await on its HTTP check.
HealthProbed(t, r, steps, reqs) ==
  Returned(t, steps, reqs,
    ServiceHealth(t,
      IF r.ok
      THEN [ endpoint |-> Str(t.endpoint), statusCode |-> r.v.statusCode,
             status |-> IF r.v.statusCode >= 200 /\ r.v.statusCode < 400
                        THEN "ok" ELSE "error" ]
      ELSE [ endpoint |-> HealthEndpoint(t, RegistryFind(t.serviceName, t.namespace)),
             statusCode |-> 0, status |-> "error" ]))

\* --------------------------------------- discover_endpoints, get_endpoint_schema

\* What ServiceDiscovery.discoverEndpoints resolves to, as the handlers see
\* it: endpoints from the registry or a specification, and endpoints an
\* annotation supplied, which are whatever its JSON held.
EngineAnswers ==
  { [ discoveryMethod |-> "default", documentation |-> Undefined,
      endpoints |-> << Obj(<< << <<"path">>, Str(<<"/", "health">>) >>,
                              << <<"method">>, Str(<<"GET">>) >> >>) >> ],
    [ discoveryMethod |-> "swagger", documentation |-> Str(<<"Pet", " ", "store">>),
      endpoints |-> << Obj(<< << <<"path">>, Str(<<"/", "x">>) >>,
                              << <<"method">>, Str(<<"get">>) >>,
                              << <<"authentication">>, Str(<<"none">>) >> >>) >> ],
    [ discoveryMethod |-> "annotations", documentation |-> Undefined,
      endpoints |-> << Obj(<< << <<"path">>, Str(<<"/", "x">>) >> >>) >> ],
    [ discoveryMethod |-> "annotations", documentation |-> Undefined,
      endpoints |-> << Null >> ],
    [ discoveryMethod |-> "annotations", documentation |-> Undefined,
      endpoints |-> << Obj(<< << <<"path">>, Str(<<"/", "x">>) >>,
                              << <<"method">>, Str(<<"GET">>) >>,
                              << <<"parameters">>, Str(<<"id">>) >> >>) >> ] }

\* `discover:${serviceName}` and `schema:${serviceName}:${endpoint}`
DiscoverKey(serviceName) == <<"discover", ":">> \o serviceName
SchemaKey(serviceName, endpoint) == <<"schema", ":">> \o serviceName \o <<":">> \o endpoint

\* rateLimiter.check(key); new ServiceDiscovery(); await discovery.discoverEndpoints(...)
LimitThenDiscover(t, rl, cfg, steps) ==
  IF rl.threw
  THEN Returned(t, Append(steps, RateLimitStep(rl)), rl.requests,
                ToolError(RateLimitError("Rate limit exceeded")))
  ELSE IF ~cfg
  THEN Returned(t, steps \o << RateLimitStep(rl),
                               Step("construct", "ServiceDiscovery", FALSE) >>,
                rl.requests, ToolError(KubeconfigError))
  ELSE Awaiting(t, "discoverEndpoints",
                steps \o << RateLimitStep(rl), Step("construct", "ServiceDiscovery", TRUE) >>,
                rl.requests)

DiscoverMethods == { Str(<<"auto">>), Str(<<"manual">>), Str(<<"swagger">>) }

\* discoverEndpoints(args) up to its await.
DiscoverEndpointsValidated(t, in, method, cfg, reqs, time) ==
  IF ~in.ok THEN Returned(t, in.steps, reqs, ToolError(in.err))
  ELSE IF method \notin DiscoverMethods
  THEN Returned(t, Append(in.steps, Step("enum", "method", FALSE)), reqs,
                ToolError(Error("Method must be 'auto', 'manual', or 'swagger'")))
  ELSE LimitThenDiscover(
         [t EXCEPT !.serviceName = in.serviceName, !.namespace = in.namespace,
                   !.method = method.str],
         RateLimiterCheck(reqs, DiscoverKey(in.serviceName), time), cfg,
         Append(in.steps, Step("enum", "method", TRUE)))

\* args.method?.toUpperCase() || "GET"
SchemaMethod(method) ==
  IF Nullish(method) THEN Ok(<<"GET">>)
  ELSE IF method.t # "string"
  THEN Throw(TypeError("args.method?.toUpperCase is not a function"))
  ELSE IF method.str = <<>> THEN Ok(<<"GET">>)
  ELSE Ok(ToUpperCase(method.str))

\* The validation block of getEndpointSchema, in the order of the source.
SchemaValidate(sn, ep, me, ns) ==
  IF ~sn.ok THEN [ok |-> FALSE, err |-> sn.err,
                  steps |-> <<Step("validate", "serviceName", FALSE)>>]
  ELSE IF ~ep.ok THEN [ok |-> FALSE, err |-> ep.err,
                       steps |-> << Step("validate", "serviceName", TRUE),
                                    Step("validate", "endpoint", FALSE) >>]
  ELSE IF ~me.ok THEN [ok |-> FALSE, err |-> me.err,
                       steps |-> << Step("validate", "serviceName", TRUE),
                                    Step("validate", "endpoint", TRUE) >>]
  ELSE IF ~ns.ok THEN [ok |-> FALSE, err |-> ns.err,
                       steps |-> << Step("validate", "serviceName", TRUE),
                                    Step("validate", "endpoint", TRUE),
                                    Step("validate", "namespace", FALSE) >>]
  ELSE [ok |-> TRUE, serviceName |-> sn.v, endpoint |-> ep.v, method |-> me.v,
        namespace |-> ns.v,
        steps |-> << Step("validate", "serviceName", TRUE),
                     Step("validate", "endpoint", TRUE),
                     Step("validate", "namespace", TRUE) >>]

\* getEndpointSchema(args) up to its await.
GetEndpointSchemaValidated(t, in, cfg, reqs, time) ==
  IF ~in.ok THEN Returned(t, in.steps, reqs, ToolError(in.err))
  ELSE LimitThenDiscover(
         [t EXCEPT !.serviceName = in.serviceName, !.namespace = in.namespace,
                   !.endpoint = in.endpoint, !.method = in.method],
         RateLimiterCheck(reqs, SchemaKey(in.serviceName, in.endpoint), time), cfg,
         in.steps)

\* ep.path === endpoint && ep.method.toUpperCase() === method.toUpperCase()
EndpointMatches(ep, endpoint, method) ==
  IF Nullish(ep) THEN Throw(TypeError("Cannot read properties of null (reading 'path')"))
  ELSE IF GetProp(ep, <<"path">>) # Str(endpoint) THEN Ok(FALSE)
  ELSE IF GetProp(ep, <<"method">>).t # "string"
  THEN Throw(TypeError("Cannot read properties of undefined (reading 'toUpperCase')"))
  ELSE Ok(ToUpperCase(GetProp(ep, <<"method">>).str) = ToUpperCase(method))

RECURSIVE FindEndpoint(_, _, _, _)
\* discoveryResult.endpoints.find(...): the first match from index i on,
\* undefined when there is none, or what the predicate threw.
FindEndpoint(endpoints, i, endpoint, method) ==
  IF i > Len(endpoints) THEN Ok(Undefined)
  ELSE IF ~EndpointMatches(endpoints[i], endpoint, method).ok
  THEN EndpointMatches(endpoints[i], endpoint, method)
  ELSE IF EndpointMatches(endpoints[i], endpoint, method).v THEN Ok(endpoints[i])
  ELSE FindEndpoint(endpoints, i + 1, endpoint, method)

\* The schema built from the endpoint found, or the generic one.
EndpointSchema(t, found, steps, reqs) ==
  IF ~found.ok THEN Returned(t, steps, reqs, ToolError(found.err))
  ELSE IF found.v = Undefined
  THEN Returned(t, steps, reqs,
         ToolSuccess([ kind |-> "schema", endpoint |-> t.endpoint, method |-> t.method,
                       description |-> Str(<<"Endpoint schema not available">>),
                       authentication |-> Str(<<"unknown">>), required |-> FALSE ]))
  ELSE IF GetProp(found.v, <<"parameters">>).t \notin {"undefined", "null", "array"}
  THEN Returned(t, steps, reqs,
         ToolError(TypeError("endpointInfo.parameters?.filter is not a function")))
  ELSE Returned(t, steps, reqs,
         ToolSuccess([ kind |-> "schema", endpoint |-> t.endpoint, method |-> t.method,
                       description |-> GetProp(found.v, <<"description">>),
                       authentication |-> OrElse(GetProp(found.v, <<"authentication">>),
                                                 Str(<<"unknown">>)),
                       required |-> GetProp(found.v, <<"authentication">>) # Str(<<"none">>) ]))

\* discoverEndpoints and getEndpointSchema after their await.
DiscoveryResumed(t, answer, steps, reqs) ==
  IF t.name = "discover_endpoints"
  THEN Returned(t, steps, reqs,
         ToolSuccess([ kind |-> "discovery", serviceName |-> t.serviceName,
                       discoveryMethod |-> answer.discoveryMethod,
                       endpoints |-> answer.endpoints ]))
  ELSE EndpointSchema(t, FindEndpoint(answer.endpoints, 1, t.endpoint, t.method),
                      steps, reqs)

\* ----------------------------------------------------- get_api_documentation

DocFormats == { Str(<<"swagger">>), Str(<<"openapi">>), Str(<<"markdown">>), Str(<<"auto">>) }

docPaths ==
  << [path |-> <<"/", "swagger", ".", "json">>, format |-> <<"swagger">>],
     [path |-> <<"/", "swagger", ".", "yaml">>, format |-> <<"swagger">>],
     [path |-> <<"/", "openapi", ".", "json">>, format |-> <<"openapi">>],
     [path |-> <<"/", "openapi", ".", "yaml">>, format |-> <<"openapi">>],
     [path |-> <<"/", "api", "-", "docs">>, format |-> <<"swagger">>],
     [path |-> <<"/", "v3", "/", "api", "-", "docs">>, format |-> <<"openapi">>],
     [path |-> <<"/", "api", "/", "swagger", ".", "json">>, format |-> <<"swagger">>],
     [path |-> <<"/", "docs">>, format |-> <<"markdown">>],
     [path |-> <<"/", "README", ".", "md">>, format |-> <<"markdown">>] >>

\* The next path the loop requests from index i on (0: the loop is over):
\* if (format !== "auto" && format !== docPath.format) continue
NextDocPath(format, i) ==
  LET wanted == { j \in i..Len(docPaths) :
                    format = <<"auto">> \/ format = docPaths[j].format }
  IN IF wanted = {} THEN 0 ELSE CHOOSE j \in wanted : \A k \in wanted : j <= k

\* `docs:${serviceName}`
DocsKey(serviceName) == <<"docs", ":">> \o serviceName

\* registryConfig?.baseUrl || `http://...svc.cluster.local:${registryConfig?.port || 8080}`
DocsBaseUrl(t, reg) ==
  IF reg.found /\ reg.config.baseUrl # <<>>
  THEN reg.config.baseUrl
  ELSE ClusterUrl(t.serviceName, t.namespace,
                  IF reg.found /\ reg.config.port # 0 THEN reg.config.port ELSE 8080)

\* The result when nothing was found.
NoDocumentation(t) ==
  ToolSuccess([ kind |-> "documentation", serviceName |-> t.serviceName,
                found |-> FALSE, format |-> <<>>, content |-> Null ])

\* The result for a document found: a swagger string is parsed when it is
\* JSON, and `"info" in content` throws on null.
Documentation(t, foundDoc, foundFormat, steps, reqs) ==
  IF foundDoc.t = "string" /\ foundFormat = <<"swagger">> /\ JsonParse(foundDoc.str).ok
     /\ JsonParse(foundDoc.str).v = Null
  THEN Returned(t, steps, reqs,
         ToolError(TypeError("Cannot use 'in' operator to search for 'info' in null")))
  ELSE Returned(t, steps, reqs,
         ToolSuccess([ kind |-> "documentation", serviceName |-> t.serviceName,
                       found |-> TRUE, format |-> foundFormat,
                       content |-> IF foundDoc.t = "string" /\ foundFormat = <<"swagger">>
                                      /\ JsonParse(foundDoc.str).ok
                                   THEN JsonParse(foundDoc.str).v ELSE foundDoc ]))

\* The loop over docPaths from index i on, then the discovery fallback, whose
\* try block also holds new ServiceDiscovery().
DocsLoop(t, i, cfg, steps, reqs) ==
  IF i # 0
  THEN Awaiting([t EXCEPT !.idx = i,
                          !.url = DocsBaseUrl(t, RegistryFind(t.serviceName, t.namespace))
                                    \o docPaths[i].path],
                "http.get", steps, reqs)
  ELSE IF ~cfg
  THEN Returned(t, Append(steps, Step("construct", "ServiceDiscovery", FALSE)), reqs,
                NoDocumentation(t))
  ELSE Awaiting([t EXCEPT !.idx = 0, !.url = <<>>], "discoverEndpoints",
                Append(steps, Step("construct", "ServiceDiscovery", TRUE)), reqs)

\* getApiDocumentation(args) up to its first await.
GetApiDocumentationLimited(t, rl, cfg, steps) ==
  IF rl.threw
  THEN Returned(t, Append(steps, RateLimitStep(rl)), rl.requests,
                ToolError(RateLimitError("Rate limit exceeded")))
  ELSE DocsLoop(t, NextDocPath(t.method, 1), cfg, Append(steps, RateLimitStep(rl)),
                rl.requests)

GetApiDocumentationValidated(t, in, format, cfg, reqs, time) ==
  IF ~in.ok THEN Returned(t, in.steps, reqs, ToolError(in.err))
  ELSE IF format \notin DocFormats
  THEN Returned(t, Append(in.steps, Step("enum", "format", FALSE)), reqs,
                ToolError(Error("Format must be 'swagger', 'openapi', 'markdown', or 'auto'")))
  ELSE GetApiDocumentationLimited(
         [t EXCEPT !.serviceName = in.serviceName, !.namespace = in.namespace,
                   !.method = format.str],
         RateLimiterCheck(reqs, DocsKey(in.serviceName), time), cfg,
         Append(in.steps, Step("enum", "format", TRUE)))

\* getApiDocumentation after the await on a documentation path.
DocsProbed(t, r, cfg, steps, reqs) ==
  IF r.ok /\ r.v.statusCode = 200 /\ Truthy(r.v.body)
  THEN Documentation(t, r.v.body, docPaths[t.idx].format, steps, reqs)
  ELSE DocsLoop(t, NextDocPath(t.method, t.idx + 1), cfg, steps, reqs)

\* getApiDocumentation after the await on the Discovery Engine.
DocsDiscovered(t, answer, steps, reqs) ==
  IF Truthy(answer.documentation)
  THEN Documentation(t, answer.documentation, <<"swagger">>, steps, reqs)
  ELSE Returned(t, steps, reqs, NoDocumentation(t))

\* ------------------------------------------------------ the handlers' steps

\* The arguments callers pass to each tool: valid ones, a missing and a
\* padded service name, an endpoint without its slash, non-string values,
\* and values outside the enumerations.
ToolArgs(name) ==
  CASE name = "list_services" ->
         { [NoToolArgs EXCEPT !.namespace = ns, !.serviceType = ty] :
             ns \in {Undefined, Str(<<"prod">>), Str(<<"Bad", "!">>)},
             ty \in {Undefined, Str(<<"Deployment">>)} }
    [] name = "get_service_info" ->
         { [NoToolArgs EXCEPT !.serviceName = sn, !.namespace = ns] :
             sn \in {Str(<<"a">>), Undefined}, ns \in {Undefined, Num(1)} }
    [] name = "get_service_health" ->
         { [NoToolArgs EXCEPT !.serviceName = sn, !.checkEndpoint = ce] :
             sn \in {Str(<<"a">>), Str(<<"homepage">>), Str(<<" ", "a">>)},
             ce \in {Undefined, Str(<<"/", "ready">>), Str(<<"ready">>), Num(1)} }
    [] name = "discover_endpoints" ->
         { [NoToolArgs EXCEPT !.serviceName = sn, !.method = me] :
             sn \in {Str(<<"a">>), Undefined},
             me \in {Undefined, Str(<<"swagger">>), Str(<<"bogus">>)} }
    [] name = "get_endpoint_schema" ->
         { [NoToolArgs EXCEPT !.serviceName = Str(<<"a">>), !.endpoint = ep, !.method = me] :
             ep \in {Str(<<"/", "x">>), Str(<<"x">>)},
             me \in {Undefined, Str(<<"get">>), Num(1)} }
    [] OTHER ->
         { [NoToolArgs EXCEPT !.serviceName = sn, !.format = fo] :
             sn \in {Str(<<"a">>), Str(<<"A">>)},
             fo \in {Undefined, Str(<<"openapi">>), Str(<<"pdf">>)} }

\* A handler from its entry to its first await (or its return).
ToolStart(t, args, cfg, reqs, time) ==
  CASE t.name = "list_services" ->
         ListServicesValidated(t, validateNamespace(args.namespace), cfg, reqs)
    [] t.name = "get_service_info" ->
         GetServiceInfoValidated(t,
           NameAndNamespace(validateServiceName(args.serviceName),
                            validateNamespace(args.namespace)), cfg, reqs)
    [] t.name = "get_service_health" ->
         GetServiceHealthValidated(t,
           NameAndNamespace(validateServiceName(args.serviceName),
                            validateNamespace(args.namespace)), cfg, reqs, time)
    [] t.name = "discover_endpoints" ->
         DiscoverEndpointsValidated(t,
           NameAndNamespace(validateServiceName(args.serviceName),
                            validateNamespace(args.namespace)),
           OrElse(args.method, Str(<<"auto">>)), cfg, reqs, time)
    [] t.name = "get_endpoint_schema" ->
         GetEndpointSchemaValidated(t,
           SchemaValidate(validateServiceName(args.serviceName),
                          validateEndpoint(args.endpoint), SchemaMethod(args.method),
                          validateNamespace(args.namespace)), cfg, reqs, time)
    [] OTHER ->
         GetApiDocumentationValidated(t,
           NameAndNamespace(validateServiceName(args.serviceName),
                            validateNamespace(args.namespace)),
           OrElse(args.format, Str(<<"auto">>)), cfg, reqs, time)

\* What a handler's awaited call may come back with.
ToolAnswers(call) ==
  IF call \in K8sCalls
  THEN ClusterAnswers(call) \cup { [kind |-> "apiError", message |-> m] : m \in ClusterMessages }
  ELSE IF call = "http.get"
  THEN ProbeOutcomes
       \cup { [kind |-> "response", status |-> 200, body |-> b] :
                b \in { Str(JsonObject), Str(JsonNull), Obj(<<>>) } }
       \cup { [kind |-> "response", status |-> st, body |-> Undefined] : st \in {399, 400} }
  ELSE EngineAnswers

\* A handler from one await to the next (or to its return).
ToolResumed(t, answer, steps, reqs) ==
  CASE t.awaiting \in K8sCalls ->
         IF t.name = "list_services"
         THEN ListServicesResumed(t, K8sCallResult(t.awaiting, answer), steps, reqs)
         ELSE ServiceResumed(t, K8sCallResult(t.awaiting, answer), steps, reqs)
    [] t.awaiting = "http.get" ->
         IF t.name = "get_service_health"
         THEN HealthProbed(t, HttpClientRequest(answer), steps, reqs)
         ELSE DocsProbed(t, HttpClientRequest(answer), t.kubeconfig, steps, reqs)
    [] OTHER ->
         IF t.name = "get_api_documentation"
         THEN DocsDiscovered(t, answer, steps, reqs)
         ELSE DiscoveryResumed(t, answer, steps, reqs)

ToolInit ==
  /\ tool = ToolIdle
  /\ tsteps = <<>>
  /\ tresult = NoEnvelope

ToolApply(tr) ==
  /\ tool' = tr.tool
  /\ tsteps' = tr.steps
  /\ tresult' = tr.result
  /\ requests' = tr.requests

\* A caller invokes a handler.
ToolCall(name, args, cfg) ==
  /\ tool.pc = "idle"
  /\ te.pc = "idle"
  /\ tool.calls < MaxCalls
  /\ ToolApply(ToolStart([ToolIdle EXCEPT !.name = name, !.args = args, !.kubeconfig = cfg,
                                          !.calls = tool.calls + 1],
                         args, cfg, requests, now))
  /\ UNCHANGED <<now, shadow, seen, okAt, inflight, lastCheck, teVars, discVars, http, applied, sse>>

\* The call a handler awaits settles.
ToolResponse(answer) ==
  /\ tool.pc = "await"
  /\ ToolApply(ToolResumed(tool, answer, tsteps, requests))
  /\ UNCHANGED <<now, shadow, seen, okAt, inflight, lastCheck, teVars, discVars, http, applied, sse>>

\* The caller has its envelope.
ToolDone ==
  /\ tool.pc = "returned"
  /\ http.pc # "handler"
  /\ tool' = [ToolIdle EXCEPT !.calls = tool.calls]
  /\ tsteps' = <<>>
  /\ tresult' = NoEnvelope
  /\ UNCHANGED <<rlVars, teVars, discVars, http, applied, sse>>

\* ------------------------------------------------------------ the HTTP API

\* process.env as the server finds it.  API_KEYS is the text of the variable.
Environments ==
  { [DEV_MODE |-> Undefined, DISABLE_AUTH |-> Undefined, API_KEYS |-> Undefined],
    [DEV_MODE |-> Undefined, DISABLE_AUTH |-> Undefined,
     API_KEYS |-> Str(<<"k1", ",", " ", "k2">>)],
    [DEV_MODE |-> Str(<<"true">>), DISABLE_AUTH |-> Undefined, API_KEYS |-> Undefined],
    [DEV_MODE |-> Undefined, DISABLE_AUTH |-> Str(<<"true">>),
     API_KEYS |-> Str(<<"k1", ",", " ", "k2">>)],
    [DEV_MODE |-> Str(<<"1">>), DISABLE_AUTH |-> Undefined, API_KEYS |-> Str(<<" ", ",">>)] }

\* process.env.DEV_MODE === "true" || process.env.DISABLE_AUTH === "true"
isDevModeEnabled(env) ==
  env.DEV_MODE = Str(<<"true">>) \/ env.DISABLE_AUTH = Str(<<"true">>)

RECURSIVE SplitOn(_, _)
\* s.split(sep)
SplitOn(s, sep) ==
  IF IndexOf(s, sep) = 0 THEN <<s>>
  ELSE <<SubSeq(s, 1, IndexOf(s, sep) - 1)>>
       \o SplitOn(SubSeq(s, IndexOf(s, sep) + 1, Len(s)), sep)

\* process.env.API_KEYS?.split(",").map(k => k.trim()).filter(k => k.length > 0) || []
ValidApiKeys(env) ==
  IF env.API_KEYS = Undefined THEN {}
  ELSE { Trim(SplitOn(env.API_KEYS.str, ",")[i]) :
           i \in 1..Len(SplitOn(env.API_KEYS.str, ",")) } \ { <<>> }

\* A validateApiKey that admits every key.
validateApiKeyOpen(apiKey, env) == TRUE

\* validateApiKey(apiKey)
validateApiKey(apiKey, env) ==
  IF isDevModeEnabled(env)
  THEN IF ~Truthy(apiKey) THEN TRUE
       ELSE ValidApiKeys(env) = {} \/ apiKey.str \in ValidApiKeys(env)
  ELSE IF ~Truthy(apiKey) THEN FALSE
  ELSE IF ValidApiKeys(env) = {} THEN FALSE
  ELSE apiKey.str \in ValidApiKeys(env)

\* header.replace("Bearer ", ""): the first occurrence is removed.
ReplaceBearer(s) ==
  IF \E i \in 1..(Len(s) - 1) : s[i] = "Bearer" /\ s[i + 1] = " "
  THEN SubSeq(s, 1, IndexOf(s, "Bearer") - 1)
       \o SubSeq(s, IndexOf(s, "Bearer") + 2, Len(s))
  ELSE s

\* req.headers.authorization?.replace("Bearer ", "") || req.headers["x-api-key"]
RequestApiKey(req) ==
  OrElse(IF req.authorization = Undefined THEN Undefined
         ELSE Str(ReplaceBearer(req.authorization.str)),
         req.xApiKey)

\* `http:${apiKey || req.ip || "unknown"}`
HttpKey(req) ==
  <<"http", ":">> \o (IF Truthy(RequestApiKey(req)) THEN RequestApiKey(req).str
                      ELSE <<"10.0.0.9">>)

\* The requests clients send: the health check, the tool list, tool calls
\* with and without keys in either header, a pre-flight, a plain-HTTP request
\* and routes that do not exist.
HttpHeaders ==
  { [authorization |-> Undefined, xApiKey |-> Undefined],
    [authorization |-> Str(<<"Bearer", " ", "k1">>), xApiKey |-> Undefined],
    [authorization |-> Undefined, xApiKey |-> Str(<<"k2">>)],
    [authorization |-> Str(<<"Bearer", " ", "zz">>), xApiKey |-> Str(<<"k1">>)],
    [authorization |-> Str(<<"Bearer", " ">>), xApiKey |-> Undefined] }

HttpRequests ==
  { [ method |-> "GET", route |-> "health", https |-> s, tool |-> "", args |-> NoToolArgs,
      authorization |-> h.authorization, xApiKey |-> h.xApiKey ] :
      s \in BOOLEAN, h \in {hh \in HttpHeaders : hh.authorization = Undefined} }
  \cup { [ method |-> m, route |-> "tools", https |-> TRUE, tool |-> "", args |-> NoToolArgs,
           authorization |-> h.authorization, xApiKey |-> h.xApiKey ] :
           m \in {"GET", "OPTIONS"}, h \in HttpHeaders }
  \cup { [ method |-> "POST", route |-> "tool", https |-> TRUE, tool |-> n,
           args |-> [NoToolArgs EXCEPT !.serviceName = sn],
           authorization |-> h.authorization, xApiKey |-> h.xApiKey ] :
           n \in {"discover_endpoints", "get_service_info", "restart_service"},
           sn \in {Str(<<"a">>), Undefined}, h \in HttpHeaders }
  \cup { [ method |-> "GET", route |-> r, https |-> TRUE, tool |-> "", args |-> NoToolArgs,
           authorization |-> Str(<<"Bearer", " ", "k1">>), xApiKey |-> Undefined ] :
           r \in {"api-other", "other"} }

HttpIdle ==
  [ method |-> "", route |-> "", https |-> TRUE, tool |-> "", args |-> NoToolArgs,
    authorization |-> Undefined, xApiKey |-> Undefined ]

\* A response of the server.  limited tells where a RateLimitError was
\* raised while the request was served, reached whether the request got past
\* the authentication middleware to a route.
HttpResponse(status, error, limited, reached) ==
  [status |-> status, error |-> error, limited |-> limited, reached |-> reached]

\* mcpToHttp(mcpResponse) and the status the route handler answers with.
mcpToHttp(envelope) ==
  IF envelope.payload.kind = "exception"
  THEN HttpResponse(500, "Internal server error", "none", TRUE)
  ELSE IF envelope.isError
  THEN HttpResponse(500,
         sanitizeError(Error(IF envelope.error # "" THEN envelope.error
                             ELSE "Unknown error")),
         IF envelope.errorName = "RateLimitError" THEN "handler" ELSE "none", TRUE)
  ELSE HttpResponse(200, "", "none", TRUE)

\* The routes, for a request that has passed the middleware.  Status 0: the
\* request is handed to a tool handler.
HttpRouted(req) ==
  CASE req.route = "health" /\ req.method = "GET" -> HttpResponse(200, "", "none", FALSE)
    [] req.route = "tools" /\ req.method = "GET" -> HttpResponse(200, "", "none", TRUE)
    [] req.route = "tool" /\ req.method = "POST" ->
         IF req.tool \in ToolNames
         THEN HttpResponse(0, "", "none", TRUE)
         ELSE HttpResponse(404, "Unknown tool", "none", TRUE)
    [] OTHER -> HttpResponse(404, "Not found", "none", req.route # "other")

\* authenticate(req, res, next)
authenticate(req, env) ==
  IF ~Truthy(RequestApiKey(req)) THEN HttpResponse(401, "Missing API key", "none", FALSE)
  ELSE IF ~validateApiKey(RequestApiKey(req), env)
  THEN HttpResponse(403, "Invalid API key", "none", FALSE)
  ELSE HttpRouted(req)

\* The middleware in the order it is mounted: HTTPS enforcement, CORS with
\* its answer to OPTIONS, and under /api the limiter, then authentication.
HttpMiddleware(req, env, rl) ==
  IF ~req.https THEN HttpResponse(403, "HTTPS required", "none", FALSE)
  ELSE IF req.method = "OPTIONS" THEN HttpResponse(204, "", "none", FALSE)
  ELSE IF req.route \in {"health", "other"} THEN HttpRouted(req)
  ELSE IF rl.threw THEN HttpResponse(429, "Rate limit exceeded", "middleware", FALSE)
  ELSE authenticate(req, env)

\* Whether rateLimitMiddleware runs for the request.
ReachesLimiter(req) ==
  req.https /\ req.method # "OPTIONS" /\ req.route \notin {"health", "other"}

\* ------------------------------------------------- the validators, applied

\* Values a caller may pass where a name is expected.
NameInputs ==
  { Undefined, Null, Num(1), Bool(TRUE), Obj(<<>>), Arr(<<>>) }
  \cup { Str(s) : s \in { <<>>, <<" ">>, <<"a">>, <<" ", "a">>, <<"a", " ">>,
                          <<" ", "a", "-", "b", " ">>, <<"a", "-", "b">>, <<"-", "a">>,
                          <<"a", "-">>, <<"A">>, <<"a", ".", "b">>, <<"a", " ", "b">>,
                          <<"default">>, <<"kube", "-", "system">> } }

\* Values a caller may pass where a mapping is expected.
MappingInputs ==
  { Undefined, Null, Num(1), Bool(FALSE), Str(<<"a">>), Str(<<>>),
    Arr(<<>>), Arr(<<Str(<<"a">>)>>), Obj(<<>>) }
  \cup { Obj(<< <<"q", v>> >>) :
           v \in { Str(<<"a">>), Str(<<>>), Num(1), Bool(TRUE), Null, Undefined,
                   Obj(<<>>), Obj(<< <<"a", Str(<<"b">>)>> >>), Arr(<<>>),
                   Arr(<<Str(<<"a">>), Str(<<"b">>)>>) } }
  \cup { Obj(<< <<"q", Str(<<"a">>)>>, <<"x", v>> >>) : v \in { Num(1), Obj(<<>>) } }

\* Candidate URLs: scheme, host, optional port, optional path; other schemes
\* and text that is no URL; relative references.
UrlHosts ==
  { <<"evil", ".", "com">>,
    <<"homepage", ".", "default">> \o ClusterSuffix,
    <<"a", ".", "kube", "-", "system">> \o ClusterSuffix,
    <<"a", "-", "b", ".", "monitoring">> \o ClusterSuffix,
    <<"A", ".", "default">> \o ClusterSuffix,
    <<"a", ".", "prod">> \o ClusterSuffix,
    <<"a", ".", "b", ".", "default">> \o ClusterSuffix,
    <<"-", "a", ".", "default">> \o ClusterSuffix,
    <<"default">> \o ClusterSuffix,
    <<"a", ".", "default">> \o ClusterSuffix \o <<".", "evil", ".", "com">> }

UrlPorts == { <<>> } \cup { <<":", p>> : p \in DigitToks }

UrlCandidates ==
  { scheme \o <<"/", "/">> \o host \o port \o path :
      scheme \in {HttpScheme, HttpsScheme}, host \in UrlHosts, port \in UrlPorts,
      path \in { <<>>, <<"/", "x">> } }
  \cup { <<"data", ":", "x">>, <<"HTTP", ":", "/", "/">> \o <<"a", ".", "default">> \o ClusterSuffix,
         <<"http", ":", "/", "/">>, <<"homepage">>, <<>>,
         <<"/", "x">>, <<"x">>, <<"/", "/", "evil", ".", "com", "/", "x">>,
         <<"/", "/">> \o <<"a", ".", "monitoring">> \o ClusterSuffix \o <<":", "9090">> }

UrlBases ==
  { NoBase, ClusterUrl(<<"a">>, <<"default">>, 8080), ClusterUrl(<<"a">>, <<"prod">>, 3000),
    <<"http", ":", "/", "/", "evil", ".", "com">>, <<"a">> }

\* applied holds one application: the function, its arguments, its outcome.
NotApplied == [fn |-> "", in |-> Undefined, base |-> NoBase, out |-> Ok(<<>>)]

\* validateServiceName(name)
ApplyValidateServiceName(name) ==
  /\ applied = NotApplied
  /\ applied' = [fn |-> "validateServiceName", in |-> name, base |-> NoBase,
                 out |-> validateServiceName(name)]
  /\ UNCHANGED <<rlVars, teVars, discVars, tool, tsteps, tresult, http, sse>>

\* validateNamespace(namespace)
ApplyValidateNamespace(namespace) ==
  /\ applied = NotApplied
  /\ applied' = [fn |-> "validateNamespace", in |-> namespace, base |-> NoBase,
                 out |-> validateNamespace(namespace)]
  /\ UNCHANGED <<rlVars, teVars, discVars, tool, tsteps, tresult, http, sse>>

\* validateQueryParams(params)
ApplyValidateQueryParams(params) ==
  /\ applied = NotApplied
  /\ applied' = [fn |-> "validateQueryParams", in |-> params, base |-> NoBase,
                 out |-> validateQueryParams(params)]
  /\ UNCHANGED <<rlVars, teVars, discVars, tool, tsteps, tresult, http, sse>>

\* validateHeaders(headers)
ApplyValidateHeaders(headers) ==
  /\ applied = NotApplied
  /\ applied' = [fn |-> "validateHeaders", in |-> headers, base |-> NoBase,
                 out |-> validateHeaders(headers)]
  /\ UNCHANGED <<rlVars, teVars, discVars, tool, tsteps, tresult, http, sse>>

\* validateUrl(url, baseUrl)
ApplyValidateUrl(url, baseUrl) ==
  /\ applied = NotApplied
  /\ applied' = [fn |-> "validateUrl", in |-> Str(url), base |-> baseUrl,
                 out |-> validateUrl(url, baseUrl)]
  /\ UNCHANGED <<rlVars, teVars, discVars, tool, tsteps, tresult, http, sse>>

HttpInit ==
  /\ http = [ pc |-> "down", env |-> [DEV_MODE |-> Undefined, DISABLE_AUTH |-> Undefined,
                                     API_KEYS |-> Undefined],
              req |-> HttpIdle, res |-> HttpResponse(0, "", "none", FALSE) ]
  /\ applied = NotApplied

\* app.listen(PORT): the server starts in some environment.
Listen(env) ==
  /\ http.pc = "down"
  /\ http' = [http EXCEPT !.pc = "idle", !.env = env]
  /\ UNCHANGED <<rlVars, teVars, discVars, tool, tsteps, tresult, applied, sse>>

\* The request after the middleware: answered, or handed to its handler,
\* which runs to its first await.
HttpDispatched(req, res, reqs, cfg) ==
  IF res.status # 0
  THEN /\ http' = [http EXCEPT !.pc = "responded", !.req = req, !.res = res]
       /\ requests' = reqs
       /\ UNCHANGED <<tool, tsteps, tresult>>
  ELSE /\ http' = [http EXCEPT !.pc = "handler", !.req = req, !.res = res]
       /\ ToolApply(ToolStart([ToolIdle EXCEPT !.name = req.tool, !.args = req.args,
                                               !.kubeconfig = cfg,
                                               !.calls = tool.calls + 1],
                              req.args, cfg, reqs, now))

\* A request arrives and runs through the middleware to its route.
HttpRequest(req, cfg) ==
  /\ http.pc = "idle"
  /\ tool.pc = "idle"
  /\ tool.calls < MaxCalls
  /\ HttpDispatched(req,
       HttpMiddleware(req, http.env, RateLimiterCheck(requests, HttpKey(req), now)),
       IF ReachesLimiter(req)
       THEN RateLimiterCheck(requests, HttpKey(req), now).requests ELSE requests,
       cfg)
  /\ UNCHANGED <<now, shadow, seen, okAt, inflight, lastCheck, teVars, discVars, applied, sse>>

\* The handler's promise has settled: the route handler answers.
HttpRespond ==
  /\ http.pc = "handler"
  /\ tool.pc = "returned"
  /\ http' = [http EXCEPT !.pc = "responded", !.res = mcpToHttp(tresult)]
  /\ UNCHANGED <<rlVars, teVars, discVars, tool, tsteps, tresult, applied, sse>>

\* The response is sent; the server waits for the next request.
HttpDone ==
  /\ http.pc = "responded"
  /\ http' = [http EXCEPT !.pc = "idle", !.req = HttpIdle,
                          !.res = HttpResponse(0, "", "none", FALSE)]
  /\ tool' = [ToolIdle EXCEPT !.calls = tool.calls + (IF tool.pc = "idle" THEN 1 ELSE 0)]
  /\ tsteps' = <<>>
  /\ tresult' = NoEnvelope
  /\ UNCHANGED <<rlVars, teVars, discVars, applied, sse>>

\* ------------------------------------------------------------ SSE server

\* transport.sessionId of the n-th SSEServerTransport: unique per transport.
SessionId(n) == <<"s" \o ToString(n)>>

\* Map.delete(key)
MapDelete(m, key) == [k \in DOMAIN m \ {key} |-> m[k]]

\* An onerror handler that only logs.
OnErrorLogOnly(sessions, sessionId) == sessions

\* transport.onerror: activeSessions.delete(transport.sessionId)
OnError(sessions, sessionId) == MapDelete(sessions, sessionId)

\* transport.onclose: activeSessions.delete(transport.sessionId)
OnClose(sessions, sessionId) == MapDelete(sessions, sessionId)

\* req.query.sessionId as clients send it: absent, empty, or an id, of a
\* transport that exists or of none.
SessionIdInputs ==
  { Undefined, Str(<<>>) } \cup { Str(SessionId(n)) : n \in 1..MaxSessions }

\* The environments the module is loaded in: no keys, two keys, dev mode.
SSEEnvironments ==
  { env \in Environments : env.DISABLE_AUTH = Undefined /\ env.DEV_MODE # Str(<<"1">>) }

\* The headers of a connection request: a key in Authorization, or an
\* unknown key in Authorization with a known one in X-API-Key.
SSEHeaders ==
  { req \in HttpHeaders :
      req.authorization \in {Str(<<"Bearer", " ", "k1">>), Str(<<"Bearer", " ", "zz">>)} }

NoPost == [pc |-> "idle", sessionId |-> Undefined, transport |-> 0, status |-> 0]

NoConnection == [status |-> 0]

SSEInit ==
  sse = [ pc |-> "down",
          env |-> [DEV_MODE |-> Undefined, DISABLE_AUTH |-> Undefined,
                   API_KEYS |-> Undefined],
          activeSessions |-> EmptyMap, transports |-> <<>>,
          conn |-> NoConnection, post |-> NoPost ]

SSEUnchanged == UNCHANGED <<rlVars, teVars, discVars, tool, tsteps, tresult, http, applied>>

\* The module is loaded in some environment: activeSessions = new Map().
SSELoad(env) ==
  /\ sse.pc = "down"
  /\ sse' = [sse EXCEPT !.pc = "up", !.env = env]
  /\ SSEUnchanged

\* handleSSEConnection(req, res), a synchronous handler: 401 without a valid
\* key; otherwise a new transport, its handlers set, its session registered.
handleSSEConnection(req) ==
  /\ sse.pc = "up"
  /\ IF ~validateApiKey(RequestApiKey(req), sse.env)
     THEN sse' = [sse EXCEPT !.conn = [status |-> 401]]
     ELSE /\ Len(sse.transports) < MaxSessions
          /\ sse' = [sse EXCEPT
                !.transports = Append(@, [status |-> "open", apiKey |-> RequestApiKey(req)]),
                !.activeSessions =
                   MapSet(@, SessionId(Len(sse.transports) + 1), Len(sse.transports) + 1),
                !.conn = [status |-> 200]]
  /\ SSEUnchanged

\* mcpServer.connect(transport) or transport.start() rejects: the catch ends
\* the response with 500; activeSessions is not touched.
TransportStartFailed(n) ==
  /\ n \in 1..Len(sse.transports)
  /\ sse.transports[n].status = "open"
  /\ sse' = [sse EXCEPT !.transports[n].status = "failed",
                        !.conn = [status |-> 500]]
  /\ SSEUnchanged

\* The transport's close event.
TransportClose(n) ==
  /\ n \in 1..Len(sse.transports)
  /\ sse.transports[n].status # "closed"
  /\ sse' = [sse EXCEPT !.transports[n].status = "closed",
                        !.activeSessions = OnClose(@, SessionId(n))]
  /\ SSEUnchanged

\* The transport's error event.
TransportError(n) ==
  /\ n \in 1..Len(sse.transports)
  /\ sse.transports[n].status \in {"open", "failed"}
  /\ sse' = [sse EXCEPT !.transports[n].status = "errored",
                        !.activeSessions = OnError(@, SessionId(n))]
  /\ SSEUnchanged

\* handleSSEMessage(req, res) up to its await (or its return).
handleSSEMessage(sessionId) ==
  /\ sse.pc = "up"
  /\ sse.post.pc = "idle"
  /\ sse' = [sse EXCEPT !.post =
       IF ~Truthy(sessionId)
       THEN [pc |-> "answered", sessionId |-> sessionId, transport |-> 0, status |-> 400]
       ELSE IF sessionId.str \notin DOMAIN sse.activeSessions
       THEN [pc |-> "answered", sessionId |-> sessionId, transport |-> 0, status |-> 404]
       ELSE [pc |-> "await", sessionId |-> sessionId,
             transport |-> sse.activeSessions[sessionId.str], status |-> 0]]
  /\ SSEUnchanged

\* transport.handlePostMessage settles: the transport has answered (202), or
\* it threw and the catch answers 500.
PostMessageSettled(threw) ==
  /\ sse.post.pc = "await"
  /\ sse' = [sse EXCEPT !.post.pc = "answered",
                        !.post.status = IF threw THEN 500 ELSE 202]
  /\ SSEUnchanged

\* The client has its answer.
SSEMessageDone ==
  /\ sse.post.pc = "answered"
  /\ sse' = [sse EXCEPT !.post = NoPost]
  /\ SSEUnchanged

\* ------------------------------------------------------- the specifications

Init == RLInit /\ TEInit /\ DiscInit /\ ToolInit /\ HttpInit /\ SSEInit

Next ==
  \/ \E args \in TestEndpointArgs : TestEndpointCall(args)
  \/ \E outcome \in ProbeOutcomes : TestEndpointResponse(outcome)
  \/ TestEndpointDone

Spec == Init /\ [][Next]_vars

InitDisc == Init /\ variant = "validateUrl"

NextDisc ==
  \/ \E serviceName \in DiscoveryNames, namespace \in DiscoveryNamespaces,
        mode \in DiscoveryModes : DiscoverCall(serviceName, namespace, mode)
  \/ \E outcome \in DiscoveryProbeOutcomes : SwaggerResponse(outcome)
  \/ \E outcome \in K8sOutcomes : K8sResponse(outcome)
  \/ DiscoverDone

SpecDisc == InitDisc /\ [][NextDisc]_vars

InitRL == Init /\ variant = "validateUrl"

NextRL ==
  \/ \E h \in Handlers, key \in RLKeys : Invoke(h, key)
  \/ \E h \in Handlers : Resume(h)
  \/ Cleanup
  \/ Tick

SpecRL == InitRL /\ [][NextRL]_vars

\* The seven handlers, called one invocation at a time.
TestEndpointToolArgs ==
  { [NoArgs EXCEPT !.serviceName = Str(<<"a">>), !.endpoint = ep, !.method = me] :
      ep \in {Str(<<"/", "x">>), Str(<<"x">>)}, me \in {Undefined, Str(<<"HEAD">>)} }

InitTools == Init /\ variant = "validateUrl"

NextTools ==
  \/ \E name \in ToolNames, cfg \in BOOLEAN : \E args \in ToolArgs(name) :
        ToolCall(name, args, cfg)
  \/ \E answer \in ToolAnswers(tool.awaiting) : ToolResponse(answer)
  \/ ToolDone
  \/ \E args \in TestEndpointToolArgs : tool.pc = "idle" /\ TestEndpointCall(args)
  \/ \E outcome \in ProbeOutcomes : TestEndpointResponse(outcome)
  \/ TestEndpointDone

SpecTools == InitTools /\ [][NextTools]_vars

\* The HTTP API server in front of the handlers.
NextHttp ==
  \/ \E env \in Environments : Listen(env)
  \/ \E req \in HttpRequests, cfg \in BOOLEAN : HttpRequest(req, cfg)
  \/ \E answer \in ToolAnswers(tool.awaiting) : ToolResponse(answer)
  \/ HttpRespond
  \/ HttpDone

SpecHttp == InitTools /\ [][NextHttp]_vars

\* The validators and the URL guard, applied to values a caller may pass.
NextVal ==
  \/ \E name \in NameInputs : ApplyValidateServiceName(name)
  \/ \E namespace \in NameInputs : ApplyValidateNamespace(namespace)
  \/ \E params \in MappingInputs : ApplyValidateQueryParams(params)
  \/ \E headers \in MappingInputs : ApplyValidateHeaders(headers)
  \/ \E url \in UrlCandidates, baseUrl \in UrlBases : ApplyValidateUrl(url, baseUrl)

SpecVal == InitTools /\ [][NextVal]_vars

\* The SSE server: connections, posted messages and transport events.
NextSSE ==
  \/ \E env \in SSEEnvironments : SSELoad(env)
  \/ \E req \in SSEHeaders : handleSSEConnection(req)
  \/ \E n \in 1..MaxSessions : TransportStartFailed(n)
  \/ \E n \in 1..MaxSessions : TransportClose(n)
  \/ \E n \in 1..MaxSessions : TransportError(n)
  \/ \E sessionId \in SessionIdInputs : handleSSEMessage(sessionId)
  \/ \E threw \in BOOLEAN : PostMessageSettled(threw)
  \/ SSEMessageDone

SpecSSE == InitTools /\ [][NextSSE]_vars

\* test_endpoint called for a registered and an unregistered service, with
\* the default method and with HEAD, in both sources of the handler.
FallbackArgs ==
  { [NoArgs EXCEPT !.serviceName = Str(name), !.endpoint = Str(<<"/", "x">>),
                   !.method = method] :
      name \in { <<"a">>, <<"homepage">> }, method \in { Undefined, Str(<<"HEAD">>) } }

NextFallback ==
  \/ \E args \in FallbackArgs : TestEndpointCall(args)
  \/ \E outcome \in ProbeOutcomes : TestEndpointResponse(outcome)
  \/ TestEndpointDone

SpecFallback == Init /\ [][NextFallback]_vars

\* ------------------------------------------------- rate limiter: claims

\* Start of the window an entry stands for: the time of the check that set it.
WindowStart(entry) == entry.resetTime - WindowMs

\* C5: fixed window.  A check for key k made while k's window is open (an
\* entry exists and now <= resetTime) returns exactly when fewer than
\* MaxRequests checks were made in that window before it, and leaves resetTime
\* alone; a check made with no entry, or at a time > resetTime, returns and
\* opens a new window with count = 1 and resetTime = now + WindowMs.
C5_FixedWindow ==
  [][ lastCheck'.n # lastCheck.n =>
        LET k == lastCheck'.key
            open == k \in DOMAIN requests /\ now <= requests[k].resetTime
        IN IF open
           THEN /\ lastCheck'.threw <=>
                     SumFrom(seen[k], WindowStart(requests[k])) >= MaxRequests
                /\ requests'[k].resetTime = requests[k].resetTime
           ELSE /\ ~lastCheck'.threw
                /\ requests'[k] = [count |-> 1, resetTime |-> now + WindowMs]
    ]_vars

\* C5 witness: a window was filled, a further check was refused, and after the
\* window elapsed a check opened a new window.
C5_Witness ==
  \E k \in RLKeys :
    /\ k \in DOMAIN requests
    /\ requests[k].count = 1
    /\ lastCheck.key = k /\ ~lastCheck.threw
    /\ \E t \in 0..MaxTime :
         /\ t + WindowMs < WindowStart(requests[k])
         /\ okAt[k][t] = MaxRequests
         /\ seen[k][t] > MaxRequests

\* C6: no lost update.  For every key with an entry, the stored count is the
\* number of checks that returned for the key in its current window, and it
\* is at least 1 and at most MaxRequests.
C6_CountIsSuccesses ==
  \A k \in DOMAIN requests :
    /\ requests[k].count = SumFrom(okAt[k], WindowStart(requests[k]))
    /\ requests[k].count >= 1
    /\ requests[k].count <= MaxRequests

\* C6 witness: while one invocation for a key is suspended in I/O, other
\* invocations for the same key have filled the window and one was refused.
C6_Witness ==
  \E k \in RLKeys :
    /\ inflight[1] = k /\ inflight[2] = <<>>
    /\ k \in DOMAIN requests /\ requests[k].count = MaxRequests
    /\ lastCheck.key = k /\ lastCheck.threw

\* C7: the sweep removes exactly the expired entries and leaves the others as
\* they were, and every check has the outcome it has on a limiter that is
\* given the same checks and is never swept.
C7_CleanupTransparent ==
  /\ [][ (lastCheck' = lastCheck /\ now' = now /\ inflight' = inflight) =>
           /\ DOMAIN requests' = { k \in DOMAIN requests : ~(now > requests[k].resetTime) }
           /\ \A k \in DOMAIN requests' : requests'[k] = requests[k]
       ]_vars
  /\ [](lastCheck.threw = lastCheck.shadowThrew)
  /\ [](\A k \in DOMAIN requests : requests[k] = shadow[k])

\* C7 witness: the sweep has removed an entry the unswept limiter still
\* holds, and a later check for that key opened a new window in both.
C7_Witness ==
  \E k \in RLKeys :
    /\ lastCheck.key = k /\ ~lastCheck.threw
    /\ k \in DOMAIN requests /\ requests[k] = shadow[k]
    /\ requests[k].count = 1
    /\ \E k2 \in DOMAIN shadow : k2 \notin DOMAIN requests

\* ------------------------------------------------ claims about test_endpoint

\* C1, as the specification states it: every URL test_endpoint hands to the
\* probe client, the primary one and each fallback one, is a URL validateUrl
\* has returned during the call.
C1_EveryProbeGuarded ==
  \A i \in 1..Len(probes) : WithoutQuery(probes[i].href) \in guardReturned

\* The values that spell GET, HEAD or OPTIONS in some letter case.
SafeSpellings ==
  { <<"GET">>, <<"get">>, <<"Get">>, <<"HEAD">>, <<"head">>,
    <<"OPTIONS">>, <<"options">> }

IsSafeMethodValue(m) == m.t = "string" /\ m.str \in SafeSpellings

\* C3, amended: validateHttpMethod accepts exactly the spellings of GET, HEAD
\* and OPTIONS and returns the upper-case name; a test_endpoint call whose
\* method is a truthy value outside that set returns a ValidationError
\* envelope without any probe; a falsy method (absent, null, "", 0, false) is
\* replaced by GET before validation; every probe uses GET, HEAD or OPTIONS.
C3_ReadOnly ==
  /\ te.pc # "idle" =>
       /\ validateHttpMethod(te.args.method).ok <=> IsSafeMethodValue(te.args.method)
       /\ validateHttpMethod(te.args.method).ok =>
            validateHttpMethod(te.args.method).v \in {<<"GET">>, <<"HEAD">>, <<"OPTIONS">>}
       /\ (Truthy(te.args.method) /\ ~IsSafeMethodValue(te.args.method)) =>
            /\ te.pc = "returned"
            /\ result.isError
            /\ result.errorName = "ValidationError"
            /\ probes = <<>>
       /\ (~Truthy(te.args.method) /\ probes # <<>>) => probes[1].method = <<"GET">>
  /\ \A i \in 1..Len(probes) : probes[i].method \in {<<"GET">>, <<"HEAD">>, <<"OPTIONS">>}

\* A call with method POST has returned the method validator's error and no
\* probe was made.
C3_Witness ==
  /\ te.pc = "returned"
  /\ te.args.method = Str(<<"POST">>)
  /\ te.args.serviceName = Str(<<"a">>)
  /\ result.isError
  /\ result.errorName = "ValidationError"
  /\ result.error = "Only safe HTTP methods are allowed: GET, HEAD, OPTIONS"
  /\ probes = <<>>

\* C3, as the specification states it: a call whose method argument is any
\* value outside {GET, HEAD, OPTIONS} returns a validation error and makes
\* no probe.
C3_AnyOtherMethodRejected ==
  (te.pc # "idle" /\ te.args.method # Undefined /\ ~IsSafeMethodValue(te.args.method)) =>
    /\ result.isError
    /\ result.errorName = "ValidationError"
    /\ probes = <<>>

\* The port a probe's URL names.
ProbedPort(href) == RequestTarget(href).v.port

FallbackPorts == << <<"8080">>, <<"3000">>, <<"3001">> >>

\* C4, as the specification states it: a GET for an unregistered service
\* probes port 8080, then 3000, then 3001, each only after the one before
\* failed, stops at the first answer and returns that response; HEAD,
\* OPTIONS and registered services get exactly one attempt.
C4_FallbackPolicy ==
  /\ (te.method = <<"GET">> /\ ~te.registered) =>
       /\ Len(probes) <= Len(FallbackPorts)
       /\ \A i \in 1..Len(probes) :
            /\ ProbedPort(probes[i].href) = FallbackPorts[i]
            /\ i < Len(probes) => probes[i].outcome = "failed"
       /\ (te.pc = "returned" /\ probes[Len(probes)].outcome = "failed") =>
            Len(probes) = Len(FallbackPorts)
  /\ (te.method # <<"GET">> \/ te.registered) => Len(probes) <= 1
  /\ (te.pc = "returned" /\ probes # <<>> /\ probes[Len(probes)].outcome = "answered") =>
       /\ ~result.isError
       /\ result.from = probes[Len(probes)].href

\* ---------------------------------------------------- claims about discovery

\* C2, as the specification states it: every URL a handler requests passes
\* the guard's conditions on scheme, host and port.
C2_EveryOutboundUrlGuarded ==
  /\ \A i \in 1..Len(dtrace) :
       dtrace[i].kind = "http" =>
         /\ RequestTarget(dtrace[i].target).ok
         /\ GuardAccepts(RequestTarget(dtrace[i].target).v)
  /\ \A i \in 1..Len(probes) :
       /\ RequestTarget(probes[i].href).ok
       /\ GuardAccepts(RequestTarget(probes[i].href).v)

\* The registry holds an entry with endpoints for the call's service.
RegistryHolds ==
  \E i \in 1..Len(SERVICE_REGISTRY) :
    /\ SERVICE_REGISTRY[i].name = disc.serviceName
    /\ SERVICE_REGISTRY[i].namespace = disc.namespace
    /\ SERVICE_REGISTRY[i].endpoints # <<>>

\* The last swagger probe fetched a document with at least one operation
\* under a recognised verb.
SwaggerYields ==
  /\ dlast.http.kind = "response"
  /\ dlast.http.status = 200
  /\ dlast.http.body = PetsSpec

\* The Service carries the endpoint annotation and its text is valid JSON.
AnnotationYields ==
  /\ dlast.k8s.kind = "service"
  /\ \E text \in {JsonEndpointList, JsonEmptyList, JsonObject, JsonNull} :
       dlast.k8s = ServiceWith(Obj(<< << EndpointsAnnotation, Str(text) >> >>))

IsDefaultList(endpoints) ==
  /\ Len(endpoints) = 2
  /\ GetProp(endpoints[1], <<"path">>) = Str(<<"/", "health">>)
  /\ GetProp(endpoints[1], <<"method">>) = Str(<<"GET">>)
  /\ GetProp(endpoints[2], <<"path">>) = Str(<<"/", "api", "/", "health">>)
  /\ GetProp(endpoints[2], <<"method">>) = Str(<<"GET">>)

\* C8: discoverEndpoints returns a result on every path, whatever the probes
\* and the cluster query do, and returns the default result when neither the
\* registry, nor a swagger document, nor the annotation yields endpoints.
C8_NeverFails ==
  disc.pc = "returned" =>
    /\ dresult.ok
    /\ dresult.v.discoveryMethod \in {"registry", "swagger", "annotations", "default"}
    /\ dresult.v.baseUrl # <<>>
    /\ (~RegistryHolds /\ ~SwaggerYields /\ ~AnnotationYields) =>
         /\ dresult.v.discoveryMethod = "default"
         /\ IsDefaultList(dresult.v.endpoints)
         /\ dresult.v.serviceName = Str(disc.serviceName)

\* In auto mode all six probes timed out and the cluster query failed, and
\* the call returned the default result.
C8_Witness ==
  /\ disc.pc = "returned"
  /\ disc.mode = "auto"
  /\ Len(dtrace) = Len(swaggerPaths) + 1
  /\ dlast.http.kind = "timeout"
  /\ dlast.k8s.kind = "apiError"
  /\ dresult.ok
  /\ dresult.v.discoveryMethod = "default"

\* C9: for a service the registry holds with endpoints, discovery returns the
\* registry's endpoints tagged "registry" in every mode, and calls neither
\* the probe client nor the cluster.
C9_RegistryWins ==
  (disc.pc # "idle" /\ RegistryHolds) =>
    /\ disc.pc = "returned"
    /\ dtrace = <<>>
    /\ dlast = [http |-> NoOutcome, k8s |-> NoOutcome]
    /\ dresult.ok
    /\ dresult.v.discoveryMethod = "registry"
    /\ \E i \in 1..Len(SERVICE_REGISTRY) :
         /\ SERVICE_REGISTRY[i].name = disc.serviceName
         /\ SERVICE_REGISTRY[i].namespace = disc.namespace
         /\ dresult.v.baseUrl = SERVICE_REGISTRY[i].baseUrl
         /\ Len(dresult.v.endpoints) = Len(SERVICE_REGISTRY[i].endpoints)
         /\ \A j \in 1..Len(dresult.v.endpoints) :
              /\ GetProp(dresult.v.endpoints[j], <<"path">>)
                   = Str(SERVICE_REGISTRY[i].endpoints[j].path)
              /\ GetProp(dresult.v.endpoints[j], <<"method">>)
                   = Str(SERVICE_REGISTRY[i].endpoints[j].method)

\* A swagger-mode call for the registered service has returned the registry's
\* seven endpoints.
C9_Witness ==
  /\ disc.pc = "returned"
  /\ disc.mode = "swagger"
  /\ disc.serviceName = <<"homepage">>
  /\ disc.namespace = <<"default">>
  /\ dresult.v.discoveryMethod = "registry"
  /\ Len(dresult.v.endpoints) = 7

PayloadKinds == {"services", "info", "health", "discovery", "schema", "documentation"}

\* An envelope: a success payload without the error flag, or an error string
\* with isError set.
IsEnvelope(r) ==
  \/ r.isError /\ r.error # "" /\ r.payload.kind = "none"
  \/ ~r.isError /\ r.error = "" /\ r.payload.kind \in PayloadKinds

\* C11: every handler invocation that has finished, whatever its arguments
\* and whatever its validators, the limiter, the Kubernetes client, the
\* Discovery Engine and its probes did, has returned an envelope: a success
\* payload without the error flag, or an error string with isError set; no
\* exception is left for the caller.
C11_AlwaysEnvelope ==
  /\ tool.pc = "returned" => IsEnvelope(tresult)
  /\ te.pc = "returned" =>
        \/ result.isError /\ result.error # "" /\ ~result.success
        \/ ~result.isError /\ result.error = "" /\ result.statusCode # 0

\* A handler has turned an exception outside the error taxonomy, a TypeError
\* raised while it searched the discovered endpoints, into an error envelope.
C11_Witness ==
  /\ tool.pc = "returned"
  /\ tool.name = "get_endpoint_schema"
  /\ \E i \in 1..Len(tsteps) : tsteps[i].kind = "call"
  /\ tresult.isError
  /\ tresult.errorName = "TypeError"

\* C12: in every invocation the validator calls come first, then one
\* successful rateLimiter.check, and only then the calls to the Kubernetes
\* client, the probe client and the Discovery Engine.
C12_ValidateLimitCall ==
  /\ \A i \in 1..Len(tsteps) :
        /\ tsteps[i].kind = "call" =>
              \E j \in 1..(i - 1) : tsteps[j].kind = "check" /\ tsteps[j].ok
        /\ tsteps[i].kind = "validate" =>
              \A j \in 1..(i - 1) : tsteps[j].kind \notin {"check", "call"}
  /\ probes # <<>> =>
        TestEndpointKey(te.serviceName, te.endpoint) \in DOMAIN requests

\* C13: an invocation in which a validator rejected an argument returns the
\* error envelope of that ValidationError.
C13_ValidationSurfaced ==
  /\ (tool.pc = "returned" /\ \E i \in 1..Len(tsteps) :
                                 tsteps[i].kind = "validate" /\ ~tsteps[i].ok)
        => tresult.isError /\ tresult.errorName = "ValidationError"
  /\ (te.pc = "returned" /\ ~TestEndpointValidate(te.args).ok)
        => result.isError /\ result.errorName = "ValidationError"

\* C14: on the HTTP API every request that a rate limit refused, whether the
\* middleware's per-key limit or a tool handler's own rateLimiter.check, is
\* answered with status 429.
C14_RateLimitIs429 ==
  (http.pc = "responded" /\ http.res.limited # "none") => http.res.status = 429

\* The keys a request presents in its two headers.
C15_Presented ==
  (IF http.req.authorization = Undefined \/ Len(http.req.authorization.str) < 3 THEN {}
   ELSE {SubSeq(http.req.authorization.str, 3, Len(http.req.authorization.str))})
  \cup (IF http.req.xApiKey = Undefined THEN {} ELSE {http.req.xApiKey.str})

\* The keys the environment configures.
C15_Configured ==
  IF http.env.API_KEYS = Str(<<"k1", ",", " ", "k2">>) THEN {<<"k1">>, <<"k2">>} ELSE {}

\* C15: without dev mode a request under /api gets to a tool handler or to the
\* tool list only with a key, in Authorization: Bearer or X-API-Key, that is
\* one of the configured API_KEYS, so with no keys configured none gets
\* there; GET /health is answered 200 whatever the key.
C15_FailSafeAuth ==
  /\ ( /\ http.env.DEV_MODE # Str(<<"true">>)
       /\ http.env.DISABLE_AUTH # Str(<<"true">>)
       /\ http.pc \in {"handler", "responded"}
       /\ http.req.route \in {"tools", "tool", "api-other"}
       /\ http.res.reached )
     => C15_Presented \cap C15_Configured # {}
  /\ ( /\ http.pc = "responded"
       /\ http.req.route = "health"
       /\ http.req.method = "GET"
       /\ http.req.https )
     => http.res.status = 200

C15_Witness ==
  /\ http.env.DEV_MODE = Undefined
  /\ http.env.DISABLE_AUTH = Undefined
  /\ http.pc = "responded"
  /\ http.req.route = "tool"
  /\ http.req.tool = "discover_endpoints"
  /\ http.req.xApiKey = Str(<<"k2">>)
  /\ http.res.reached
  /\ http.res.status = 200

\* C16: in dev mode with no API keys configured, a request under /api that
\* carries no key is authorized and gets to its route.
C16_DevModeAdmitsKeyless ==
  ( /\ http.pc = "responded"
    /\ (http.env.DEV_MODE = Str(<<"true">>) \/ http.env.DISABLE_AUTH = Str(<<"true">>))
    /\ http.env.API_KEYS = Undefined
    /\ http.req.route \in {"tools", "tool"}
    /\ http.req.method \in {"GET", "POST"}
    /\ http.req.https
    /\ http.req.authorization = Undefined
    /\ http.req.xApiKey = Undefined
    /\ http.res.status # 429 )
  => http.res.reached

\* The messages with a credential keyword that a failure in the model carries.
C17_Keyworded ==
  { "Failed to load Kubernetes configuration. Ensure kubeconfig is available or running in-cluster." }
  \cup { prefix \o "ENOENT: no such file or directory, open /var/run/secrets/kubernetes.io/serviceaccount/token" :
           prefix \in { "", "Failed to list services: ", "Failed to list deployments: ",
                        "Failed to get service: ", "Failed to get deployment: ",
                        "Failed to list pods: " } }

\* C17: no envelope of a tool handler carries a message that mentions
\* kubeconfig or secret: a handler that returns an error because the cluster
\* configuration cannot be loaded, or on a cluster call whose failure text
\* names the secrets directory, returns the generic configuration error in
\* its place, a failure without such a word returns its own message, and a
\* thrown value that is no Error yields the generic unknown-error message.
C17_Sanitized ==
  /\ [](tresult.error \notin C17_Keyworded /\ result.error \notin C17_Keyworded)
  /\ []( ( /\ tool.pc = "returned"
           /\ tsteps # <<>>
           /\ tsteps[Len(tsteps)].kind = "construct"
           /\ ~tsteps[Len(tsteps)].ok
           /\ tresult.isError )
         => tresult.error = "Configuration error: Unable to access cluster resources" )
  /\ [][ \A message \in ClusterMessages :
           ( /\ tool.awaiting \in K8sCalls
             /\ ToolResponse([kind |-> "apiError", message |-> message])
             /\ tool'.pc = "returned"
             /\ tresult'.isError )
           => IF message = "services is forbidden"
              THEN tresult'.error \in { "Failed to list services: services is forbidden",
                                        "Failed to list deployments: services is forbidden",
                                        "Failed to get service: services is forbidden",
                                        "Failed to list pods: services is forbidden" }
              ELSE tresult'.error = "Configuration error: Unable to access cluster resources"
        ]_vars
  /\ [](\A thrown \in {Undefined, Null, Str(<<"secret">>), Num(1)} :
          sanitizeError(thrown) = "An unknown error occurred")

C17_Witness ==
  /\ tool.pc = "returned"
  /\ tool.name = "get_service_health"
  /\ tsteps[Len(tsteps)].kind = "call"
  /\ tsteps[Len(tsteps)].what = "listPods"
  /\ tresult.isError
  /\ tresult.errorName = "KubernetesError"
  /\ tresult.error = "Configuration error: Unable to access cluster resources"

\* A DNS label: lowercase letters, digits and hyphens, no hyphen at either end.
C18_DnsLabel(label) ==
  /\ label # <<>>
  /\ label[1] # "-"
  /\ label[Len(label)] # "-"
  /\ \A i \in 1..Len(label) : label[i] \in LowerAlnumToks \cup {"-"}

\* <dns-label>.<ns>.svc.cluster.local for one of the three namespaces.
C18_ClusterHost(hostname) ==
  \E ns \in { <<"default">>, <<"kube", "-", "system">>, <<"monitoring">> } :
    \E n \in 1..Len(hostname) :
      /\ C18_DnsLabel(SubSeq(hostname, 1, n))
      /\ SubSeq(hostname, n + 1, Len(hostname))
           = <<".">> \o ns \o <<".", "svc", ".", "cluster", ".", "local">>

C18_Parsed == ParseUrl(applied.in.str, applied.base)

\* C18: validateUrl(candidate, base) returns the parsed URL exactly when the
\* candidate parses (against the base when one is given), its scheme is http
\* or https, its hostname is <dns-label>.<ns>.svc.cluster.local with ns one of
\* default, kube-system and monitoring, and its port, if it has one, is one
\* of 80, 443, 8080, 3000, 3001 and 9090; otherwise it throws a
\* ValidationError.  http://evil.com fails, port 8080 of
\* homepage.default.svc.cluster.local succeeds, port 9999 of it fails.
C18_UrlGuard ==
  /\ applied.fn = "validateUrl" =>
       /\ applied.out.ok <=>
            ( /\ C18_Parsed.ok
              /\ C18_Parsed.v.protocol \in { <<"http", ":">>, <<"https", ":">> }
              /\ C18_ClusterHost(C18_Parsed.v.hostname)
              /\ \/ C18_Parsed.v.port = <<>>
                 \/ C18_Parsed.v.port \in { <<"80">>, <<"443">>, <<"8080">>, <<"3000">>,
                                            <<"3001">>, <<"9090">> } )
       /\ applied.out.ok => applied.out.v = C18_Parsed.v
       /\ ~applied.out.ok => applied.out.err.name = "ValidationError"
  /\ ~validateUrl(<<"http", ":", "/", "/", "evil", ".", "com">>, NoBase).ok
  /\ validateUrl(<<"http", ":", "/", "/", "homepage", ".", "default", ".", "svc", ".",
                   "cluster", ".", "local", ":", "8080", "/", "x">>, NoBase).ok
  /\ ~validateUrl(<<"http", ":", "/", "/", "homepage", ".", "default", ".", "svc", ".",
                    "cluster", ".", "local", ":", "9999", "/", "x">>, NoBase).ok

C18_Witness ==
  /\ applied.fn = "validateUrl"
  /\ applied.in = Str(<<"http", ":", "/", "/", "homepage", ".", "default", ".", "svc", ".",
                        "cluster", ".", "local", ":", "8080", "/", "x">>)
  /\ applied.base = NoBase
  /\ applied.out.ok
  /\ applied.out.v.port = <<"8080">>

\* C19: validateServiceName and validateNamespace decide on the trimmed
\* input: a string is accepted exactly when its trimmed value matches
\* ^[a-z0-9]([-a-z0-9]*[a-z0-9])?$ and the trimmed value is returned; an
\* absent, empty or whitespace-only namespace yields "default"; an empty
\* service name fails.
C19_TrimmedNames ==
  /\ (applied.fn \in {"validateServiceName", "validateNamespace"} /\ applied.in.t = "string"
        /\ Trim(applied.in.str) # <<>>)
     => /\ applied.out.ok <=> C18_DnsLabel(Trim(applied.in.str))
        /\ applied.out.ok => applied.out.v = Trim(applied.in.str)
  /\ (applied.fn = "validateNamespace"
        /\ (applied.in \in {Undefined, Null}
             \/ (applied.in.t = "string" /\ Trim(applied.in.str) = <<>>)))
     => applied.out = Ok(<<"default">>)
  /\ (applied.fn = "validateServiceName"
        /\ (applied.in.t # "string" \/ Trim(applied.in.str) = <<>>))
     => (~applied.out.ok /\ applied.out.err.name = "ValidationError")

\* Whether a value of a mapping is a primitive, neither object nor array.
C20_Flat(value) ==
  value.t = "object" /\ \A i \in 1..Len(value.entries) :
                            value.entries[i][2].t \notin {"object", "array"}

\* C20: validateQueryParams and validateHeaders throw a ValidationError for
\* every input that is an array, null or no object at all, accept only a flat
\* mapping, returning each value as a string, and give the empty mapping for
\* an absent input only.
C20_MappingsChecked ==
  applied.fn \in {"validateQueryParams", "validateHeaders"} =>
    /\ (applied.in.t \notin {"object", "undefined"})
         => (~applied.out.ok /\ applied.out.err.name = "ValidationError")
    /\ applied.out.ok => (applied.in = Undefined \/ C20_Flat(applied.in))
    /\ (applied.out.ok /\ applied.in.t = "object")
         => /\ Len(applied.out.v) = Len(applied.in.entries)
            /\ \A i \in 1..Len(applied.out.v) :
                 /\ applied.out.v[i][1] = applied.in.entries[i][1]
                 /\ applied.in.entries[i][2].t = "string"
                      => applied.out.v[i][2] = applied.in.entries[i][2].str
    /\ applied.in = Undefined => applied.out = Ok(<<>>)

\* The count a field of a Deployment stands for: an unset count is zero.
C21_Count(value) == IF value.t = "number" THEN value.num ELSE 0

C21_Expected(deploy) ==
  IF C21_Count(deploy.readyReplicas) = C21_Count(deploy.desired) THEN "running"
  ELSE IF C21_Count(deploy.desired) = 0 THEN "stopped"
  ELSE "pending"

\* C21: list_services reports each Deployment "running" when its ready
\* replica count equals its desired replica count, "stopped" when the desired
\* count is 0, "pending" otherwise, unset counts included.
C21_DeploymentStatus ==
  [][ \A answer \in ClusterAnswers("listDeployments") :
        ( /\ tool.name = "list_services"
          /\ tool.awaiting = "listDeployments"
          /\ tool.args.serviceType = Str(<<"Deployment">>)
          /\ ToolResponse(answer)
          /\ ~tresult'.isError )
        => /\ Len(tresult'.payload.services) = Len(answer.items)
           /\ \A i \in 1..Len(answer.items) :
                tresult'.payload.services[i].status = C21_Expected(answer.items[i])
    ]_vars

\* C22: get_service_health reports "healthy" exactly when its cluster-level
\* check is "ok" and the probe was answered with a status in [200, 400), and
\* "unhealthy" otherwise; a probe that is refused, times out or fails in
\* transport gives no error envelope but checks.http.statusCode 0 and
\* "unhealthy".
C22_HealthyIff ==
  /\ []( ( /\ tool.pc = "returned"
           /\ tool.name = "get_service_health"
           /\ ~tresult.isError )
         => /\ tresult.payload.status \in {"healthy", "unhealthy"}
            /\ tresult.payload.status = "healthy"
                 <=> ( /\ tresult.payload.kubernetes.status = "ok"
                       /\ tresult.payload.http.statusCode >= 200
                       /\ tresult.payload.http.statusCode < 400 ) )
  /\ [][ \A kind \in {"refused", "timeout", "failed"} :
           ( /\ tool.name = "get_service_health"
             /\ tool.awaiting = "http.get"
             /\ ToolResponse([kind |-> kind, status |-> 0, body |-> Undefined]) )
           => /\ tool'.pc = "returned"
              /\ ~tresult'.isError
              /\ tresult'.payload.http.statusCode = 0
              /\ tresult'.payload.status = "unhealthy"
        ]_vars

C22_Witness ==
  /\ tool.pc = "returned"
  /\ tool.name = "get_service_health"
  /\ tsteps[Len(tsteps)].what = "http.get"
  /\ ~tresult.isError
  /\ tresult.payload.kubernetes.status = "ok"
  /\ tresult.payload.http.statusCode = 0
  /\ tresult.payload.status = "unhealthy"

\* The selected pods that are Running and report Ready=True.
C23_Ready == { i \in 1..Len(tool.pods) : tool.pods[i].phase = "Running" /\ tool.pods[i].ready }

\* C23: the cluster-level check of get_service_health is "ok" when all the
\* selected pods are ready, "degraded" when some but not all are, "down" when
\* none is or none is selected; a service with only part of its pods ready is
\* never "healthy".
C23_ClusterCheck ==
  ( /\ tool.pc = "returned"
    /\ tool.name = "get_service_health"
    /\ ~tresult.isError )
  => /\ tresult.payload.kubernetes.status
          = ( IF C23_Ready = {} THEN "down"
              ELSE IF Cardinality(C23_Ready) = Len(tool.pods) THEN "ok"
              ELSE "degraded" )
     /\ (C23_Ready # {} /\ Cardinality(C23_Ready) < Len(tool.pods))
          => tresult.payload.status # "healthy"

\* The documentation probes of the current invocation, and the listed paths
\* of the format it asked for.
C24_Probes == SelectSeq(tsteps, LAMBDA st : st.kind = "call" /\ st.what = "http.get")

C24_Listed == SelectSeq(docPaths, LAMBDA d : d.format = tool.method)

\* C24: with format swagger, openapi or markdown, get_api_documentation
\* probes only the listed paths of that format, in their order, and reports
\* any documentation it returns with that format; when neither the probes nor
\* the Discovery Engine yield documentation, the result is a non-error one
\* without documentation.
C24_FormatHonoured ==
  /\ []( ( /\ tool.name = "get_api_documentation"
           /\ tool.pc \in {"await", "returned"}
           /\ tool.method \in { <<"swagger">>, <<"openapi">>, <<"markdown">> } )
         => /\ Len(C24_Probes) <= Len(C24_Listed)
            /\ \A i \in 1..Len(C24_Probes) :
                 C24_Probes[i].target
                   = DocsBaseUrl(tool, RegistryFind(tool.serviceName, tool.namespace))
                       \o C24_Listed[i].path
            /\ (tool.pc = "returned" /\ ~tresult.isError /\ tresult.payload.found)
                 => tresult.payload.format = tool.method )
  /\ [][ \A answer \in EngineAnswers :
           ( /\ tool.name = "get_api_documentation"
             /\ tool.awaiting = "discoverEndpoints"
             /\ answer.documentation = Undefined
             /\ ToolResponse(answer) )
           => /\ tool'.pc = "returned"
              /\ ~tresult'.isError
              /\ ~tresult'.payload.found
        ]_vars

\* The limiter keys whose entry a step adds, removes or changes.
C25_Touched ==
  { k \in DOMAIN requests \cup DOMAIN requests' :
      \/ k \notin DOMAIN requests
      \/ k \notin DOMAIN requests'
      \/ requests'[k] # requests[k] }

\* A handler returns the limiter's refusal in this step.
C25_Refused ==
  \/ tool.pc # "returned" /\ tool'.pc = "returned"
       /\ tresult'.errorName = "RateLimitError"
  \/ te.pc # "returned" /\ te'.pc = "returned"
       /\ result'.errorName = "RateLimitError"

\* The returned invocation had an input rejected by a validator.
C25_Invalid ==
  /\ tool.pc = "returned"
  /\ \E i \in 1..Len(tsteps) : tsteps[i].kind = "validate" /\ ~tsteps[i].ok

\* C25: a rateLimiter.check that throws RateLimitError leaves the limiter map
\* unchanged, a check changes the entry of no key but its own, and a handler
\* invocation that fails input validation has made no check, so that it
\* consumes no quota.
C25_RejectionFrame ==
  /\ [][ C25_Refused => requests' = requests ]_vars
  /\ [][ Cardinality(C25_Touched) <= 1 ]_vars
  /\ [][ (tool.pc = "idle" /\ tool'.pc = "returned"
            /\ tresult'.errorName = "ValidationError")
         => requests' = requests ]_vars
  /\ [][ (te.pc = "idle" /\ te'.pc = "returned"
            /\ result'.errorName = "ValidationError")
         => requests' = requests ]_vars
  /\ []( C25_Invalid
         => \A i \in 1..Len(tsteps) : tsteps[i].kind # "check" )

\* The message HttpClient gives each transport failure.
C26_Message(outcome) ==
  CASE outcome.kind = "refused" -> "Connection refused - service may be down"
    [] outcome.kind = "timeout" -> "Request timeout"
    [] OTHER -> "HTTP request failed"

\* C26: test_endpoint probes an alternate port only after the primary probe
\* raised a transport failure; a primary port that answers with any HTTP
\* status has that response returned, with success = (200 <= status < 400),
\* and no alternate port is probed; when the primary and every alternate port
\* fail, the error envelope carries the primary attempt's error.
C26_FallbackOnTransportFailure ==
  /\ []( \A i \in 1..Len(probes) :
           probes[i].attempt > 1 => i > 1 /\ probes[1].outcome = "failed" )
  /\ [][ \A outcome \in ProbeOutcomes :
           ( /\ te.attempt = 1
             /\ outcome.kind = "response"
             /\ TestEndpointResponse(outcome) )
           => /\ te'.pc = "returned"
              /\ ~result'.isError
              /\ result'.statusCode = outcome.status
              /\ result'.success = (200 <= outcome.status /\ outcome.status < 400)
              /\ Len(probes') = 1
              /\ probes'[1].outcome = "answered"
        ]_vars
  /\ [][ \A outcome \in ProbeOutcomes :
           ( outcome.kind # "response" /\ TestEndpointResponse(outcome) )
           => /\ te.attempt = 1 => te'.firstError.message = C26_Message(outcome)
              /\ te.attempt > 1 => te'.firstError = te.firstError
              /\ te'.pc = "returned"
                   => /\ result'.isError
                      /\ result'.error = te'.firstError.message
        ]_vars

C26_Witness ==
  /\ te.pc = "returned"
  /\ Len(probes) = 3
  /\ \A i \in 1..3 : probes[i].outcome = "failed"
  /\ result.isError
  /\ result.error = "Request timeout"

\* The base URL of the attempt behind probe i: the registry entry's, or the
\* service's cluster name on the attempted port.
C27_Base(i) ==
  IF te.registered
       /\ RegistryFind(te.serviceName, te.namespace).config.baseUrl # <<>>
       /\ probes[i].attempt = 1
  THEN RegistryFind(te.serviceName, te.namespace).config.baseUrl
  ELSE ClusterUrl(te.serviceName, te.namespace, te.ports[probes[i].attempt])

\* C27: for every endpoint validateEndpoint accepts, paths beginning with
\* "//" included, and every queryParams mapping, the host and the port of
\* each URL test_endpoint probes are those of the attempt's base URL.
C27_TargetHost ==
  \A i \in 1..Len(probes) :
    /\ RequestTarget(probes[i].href).ok
    /\ RequestTarget(probes[i].href).v.hostname = ParseAbsolute(C27_Base(i)).v.hostname
    /\ RequestTarget(probes[i].href).v.port = ParseAbsolute(C27_Base(i)).v.port

\* The validated arguments of the current call.
C28_In == TestEndpointValidate(te.args).v

\* C28: when validateServiceName and validateNamespace (and the other
\* validators) accept a test_endpoint call and the registry has no entry for
\* it, the guard accepts the default URL on port 8080 and the fallback URLs
\* on ports 3000 and 3001, so the call is not rejected before a probe.
C28_GuardAgrees ==
  ( /\ variant = "validateUrl"
    /\ te.pc # "idle"
    /\ TestEndpointValidate(te.args).ok
    /\ ~RegistryFind(C28_In.serviceName, C28_In.namespace).found )
  => /\ \A port \in {8080, 3000, 3001} :
          validateUrl(
            ClusterUrl(C28_In.serviceName, C28_In.namespace, port) \o C28_In.endpoint,
            ClusterUrl(C28_In.serviceName, C28_In.namespace, port)).ok
     /\ te.pc = "returned" => result.errorName # "ValidationError"

\* What JSON.parse made of the endpoints annotation of the service the
\* cluster returned.
C29_Parsed == JsonParse(AnnotationText(dlast.k8s.body).str).v

\* C29: every result of ServiceDiscovery.discoverEndpoints, from whichever
\* source, names the service that was requested, and an endpoints annotation
\* whose JSON value is not a list yields no "annotations" result.
C29_ResultShape ==
  (disc.pc = "returned" /\ dresult.ok) =>
    /\ dresult.v.serviceName = Str(disc.serviceName)
    /\ dresult.v.discoveryMethod \in {"registry", "swagger", "annotations", "default"}
    /\ dresult.v.discoveryMethod = "annotations" => C29_Parsed.t = "array"

\* ---------------------------------------------------- SSE server: claims

\* C30: a session id is in activeSessions only between an authenticated
\* handleSSEConnection for it and its transport's close or error event;
\* handleSSEMessage forwards a message only to the transport registered under
\* its sessionId at that moment, answers 400 when sessionId is missing and
\* 404 when it is unknown or already closed; a connection that fails
\* authentication registers no session.
C30_SessionLifecycle ==
  /\ []( \A id \in DOMAIN sse.activeSessions :
           /\ sse.activeSessions[id] \in 1..Len(sse.transports)
           /\ id = SessionId(sse.activeSessions[id])
           /\ sse.transports[sse.activeSessions[id]].status \in {"open", "failed"}
           /\ (sse.env.DEV_MODE # Str(<<"true">>) /\ sse.env.DISABLE_AUTH # Str(<<"true">>))
                => /\ sse.env.API_KEYS = Str(<<"k1", ",", " ", "k2">>)
                   /\ sse.transports[sse.activeSessions[id]].apiKey
                        \in {Str(<<"k1">>), Str(<<"k2">>)} )
  /\ [][ \A sessionId \in SessionIdInputs :
           handleSSEMessage(sessionId)
           => /\ sse'.post.pc = "await"
                   <=> (sessionId \notin {Undefined, Str(<<>>)}
                          /\ sessionId.str \in DOMAIN sse.activeSessions)
              /\ sse'.post.pc = "await"
                   => /\ SessionId(sse'.post.transport) = sessionId.str
                      /\ sse.transports[sse'.post.transport].status \in {"open", "failed"}
              /\ sse'.post.status = 400 <=> sessionId \in {Undefined, Str(<<>>)}
              /\ sse'.post.status = 404
                   <=> (sessionId \notin {Undefined, Str(<<>>)}
                          /\ \A n \in 1..Len(sse.transports) :
                               SessionId(n) = sessionId.str
                                 => sse.transports[n].status \in {"closed", "errored"})
              /\ sse'.activeSessions = sse.activeSessions
        ]_vars
  /\ [][ \A req \in SSEHeaders :
           (handleSSEConnection(req) /\ ~validateApiKey(RequestApiKey(req), sse.env))
           => /\ sse'.conn.status = 401
              /\ sse'.activeSessions = sse.activeSessions
              /\ sse'.transports = sse.transports
        ]_vars
  /\ [][ \A id \in DOMAIN sse'.activeSessions \ DOMAIN sse.activeSessions :
           /\ sse'.conn.status = 200
           /\ Len(sse'.transports) = Len(sse.transports) + 1
           /\ sse'.activeSessions[id] = Len(sse'.transports)
        ]_vars

\* A message was posted to a session whose transport had reported an error
\* and was answered 404, while another session is still registered.
C30_Witness ==
  /\ Len(sse.transports) = 2
  /\ sse.env.DEV_MODE = Undefined
  /\ sse.env.DISABLE_AUTH = Undefined
  /\ sse.post.pc = "answered"
  /\ sse.post.status = 404
  /\ sse.post.sessionId = Str(SessionId(1))
  /\ sse.transports[1].status = "errored"
  /\ DOMAIN sse.activeSessions = {SessionId(2)}

====
